---- MODULE Spec2Model ----
(***************************************************************************)
(* Model of the RSS 2.0 validation package (package rss): the IsValid     *)
(* methods and Validate, the rendering and parsing of the element types    *)
(* by encoding/xml, and validations running in concurrent goroutines.      *)
(*                                                                         *)
(* Representation of Go values:                                            *)
(*   - a Go string / []byte is a sequence of one-character strings;        *)
(*   - a pointer is a sequence of length at most one: << >> is nil and     *)
(*     <<v>> points to v;                                                  *)
(*   - a slice is a sequence;                                              *)
(*   - a struct is a record holding its fields under their Go names, the  *)
(*     field XMLName holding the Local name of the xml.Name;               *)
(*   - an interface value is [T, ptr, v]: the Go type T of the element,   *)
(*     whether the value held is a *T rather than a T, and v the struct    *)
(*     held or pointed to as <<struct>>, << >> for a nil pointer.          *)
(* The strings of the model are over the alphabet of letters, digits and   *)
(* the characters ' ', ':', '/', '.', ',', '-', '+', '@'.                  *)
(***************************************************************************)
EXTENDS Integers, Sequences, FiniteSets, TLC

VARIABLES arg, fn, pc, ret, doc, back

\* The state of one call: the element, the function called, where the call
\* is, what it returned, the document rendered or parsed, the value parsed.
callVars == <<arg, fn, pc, ret, doc, back>>

VARIABLES treeOf, iOf, resultOf, where, errVars, crashed

\* The state of the goroutines that validate concurrently: for each its tree,
\* the index i of the loop of Validate, its isValid and errs, and where it is;
\* the package variables Err...; whether a panic ended the program.
goVars == <<treeOf, iOf, resultOf, where, errVars, crashed>>

vars == <<callVars, goVars>>

(***************************************************************************)
(* Strings.                                                                *)
(***************************************************************************)
Digits == {"0", "1", "2", "3", "4", "5", "6", "7", "8", "9"}

Lower == {"a", "b", "c", "d", "e", "f", "g", "h", "i", "j", "k", "l", "m",
          "n", "o", "p", "q", "r", "s", "t", "u", "v", "w", "x", "y", "z"}

Upper == {"A", "B", "C", "D", "E", "F", "G", "H", "I", "J", "K", "L", "M",
          "N", "O", "P", "Q", "R", "S", "T", "U", "V", "W", "X", "Y", "Z"}

Letters == Lower \cup Upper

DigitOf(c) ==
    CASE c = "0" -> 0 [] c = "1" -> 1 [] c = "2" -> 2 [] c = "3" -> 3
      [] c = "4" -> 4 [] c = "5" -> 5 [] c = "6" -> 6 [] c = "7" -> 7
      [] c = "8" -> 8 [] c = "9" -> 9

\* s[i:] and s[:i] of Go, with 0-based i.
From(s, i) == SubSeq(s, i + 1, Len(s))

Upto(s, i) == SubSeq(s, 1, i)

HasPrefix(s, p) == Len(s) >= Len(p) /\ SubSeq(s, 1, Len(p)) = p

\* strings.Index(s, c) for a one-character c: 0-based, -1 when absent.
IndexOf(s, c) ==
    IF \E i \in 1..Len(s) : s[i] = c
    THEN (CHOOSE i \in 1..Len(s) : s[i] = c /\ \A j \in 1..(i - 1) : s[j] # c) - 1
    ELSE -1

LastIndexOf(s, c) ==
    IF \E i \in 1..Len(s) : s[i] = c
    THEN (CHOOSE i \in 1..Len(s) : s[i] = c /\ \A j \in (i + 1)..Len(s) : s[j] # c) - 1
    ELSE -1

(***************************************************************************)
(* Unsigned 64-bit integers are kept as their decimal digits without       *)
(* leading zeros (<< >> is 0), so that strconv.ParseUint keeps its width.  *)
(***************************************************************************)
NumLess(a, b) ==
    \/ Len(a) < Len(b)
    \/ /\ Len(a) = Len(b)
       /\ \E i \in 1..Len(a) : a[i] < b[i] /\ \A j \in 1..(i - 1) : a[j] = b[j]

NumTimes10Plus(n, d) == IF n = << >> /\ d = 0 THEN << >> ELSE Append(n, d)

RECURSIVE U(_)
U(n) == IF n = 0 THEN << >> ELSE Append(U(n \div 10), n % 10)

\* 1<<64 - 1
MaxUint64 == <<1, 8, 4, 4, 6, 7, 4, 4, 0, 7, 3, 7, 0, 9, 5, 5, 1, 6, 1, 5>>

\* maxUint64/10 + 1
Cutoff10 == <<1, 8, 4, 4, 6, 7, 4, 4, 0, 7, 3, 7, 0, 9, 5, 5, 1, 6, 2>>

\* The digit loop of strconv.ParseUint(s, 10, 0) from position i with n read.
RECURSIVE ParseUintLoop(_, _, _)
ParseUintLoop(s, i, n) ==
    IF i > Len(s) THEN [err |-> "nil", n |-> n]
    ELSE IF s[i] \notin Digits THEN [err |-> "ErrSyntax", n |-> << >>]
    ELSE IF ~NumLess(n, Cutoff10) THEN [err |-> "ErrRange", n |-> MaxUint64]
    ELSE LET n1 == NumTimes10Plus(n, DigitOf(s[i]))
         IN  IF NumLess(MaxUint64, n1) THEN [err |-> "ErrRange", n |-> MaxUint64]
             ELSE ParseUintLoop(s, i + 1, n1)

ParseUint(s) ==
    IF s = << >> THEN [err |-> "ErrSyntax", n |-> << >>]
    ELSE ParseUintLoop(s, 1, << >>)

(***************************************************************************)
(* Utility functions of the package.                                       *)
(***************************************************************************)
IsNotEmpty(s) ==
    IF s = << >> THEN [ok |-> FALSE, err |-> "ErrEmptyValue"]
    ELSE [ok |-> TRUE, err |-> "nil"]

IsEmpty(s) ==
    IF s # << >> THEN [ok |-> FALSE, err |-> "ErrNonEmptyValue"]
    ELSE [ok |-> TRUE, err |-> "nil"]

\* getScheme of net/url: <<scheme, rest, error>>.
RECURSIVE getScheme(_, _)
getScheme(rawURL, i) ==
    IF i > Len(rawURL) THEN [scheme |-> << >>, rest |-> rawURL, err |-> FALSE]
    ELSE LET c == rawURL[i]
         IN  IF c \in Letters THEN getScheme(rawURL, i + 1)
             ELSE IF c \in Digits \cup {"+", "-", "."}
             THEN IF i = 1 THEN [scheme |-> << >>, rest |-> rawURL, err |-> FALSE]
                  ELSE getScheme(rawURL, i + 1)
             ELSE IF c = ":"
             THEN IF i = 1 THEN [scheme |-> << >>, rest |-> << >>, err |-> TRUE]
                  ELSE [scheme |-> Upto(rawURL, i - 1), rest |-> From(rawURL, i), err |-> FALSE]
             ELSE [scheme |-> << >>, rest |-> rawURL, err |-> FALSE]

\* parseAuthority of net/url on an authority without '[' or '%': the text
\* before the last '@' is the userinfo, the rest the host; the host has an
\* optional port of digits after its last ':' and no character that must be
\* escaped (of the alphabet, the space).
validAuthority(authority) ==
    LET at   == LastIndexOf(authority, "@")
        host == IF at < 0 THEN authority ELSE From(authority, at + 1)
        user == IF at < 0 THEN << >> ELSE Upto(authority, at)
        i    == LastIndexOf(host, ":")
    IN  /\ i # -1 => \A k \in (i + 2)..Len(host) : host[k] \in Digits
        /\ \A k \in 1..Len(host) : host[k] # " "
        /\ \A k \in 1..Len(user) : user[k] # " "

\* url.ParseRequestURI(s) returns no error.
ParseRequestURIOk(rawURL) ==
    IF rawURL = << >> THEN FALSE
    ELSE IF rawURL = <<"*">> THEN TRUE
    ELSE LET g == getScheme(rawURL, 1)
         IN  IF g.err THEN FALSE
             ELSE IF ~HasPrefix(g.rest, <<"/">>) THEN g.scheme # << >>
             ELSE IF g.scheme # << >> /\ HasPrefix(g.rest, <<"/", "/">>)
             THEN LET a == From(g.rest, 2)
                      i == IndexOf(a, "/")
                  IN  validAuthority(IF i >= 0 THEN Upto(a, i) ELSE a)
             ELSE TRUE

IsValidURI(s) ==
    IF ~ParseRequestURIOk(s) THEN [ok |-> FALSE, err |-> "ErrInvalidURI"]
    ELSE [ok |-> TRUE, err |-> "nil"]

\* isAtext of net/mail, without the dot.
Atext == Letters \cup Digits \cup {"-", "+", "/"}

RECURSIVE skipSpace(_)
skipSpace(s) == IF s # << >> /\ s[1] = " " THEN skipSpace(Tail(s)) ELSE s

\* The length of the longest prefix of s made of the characters of set.
RECURSIVE SpanLen(_, _)
SpanLen(s, set) ==
    IF s # << >> /\ s[1] \in set THEN 1 + SpanLen(Tail(s), set) ELSE 0

\* consumeAtom(dot = true, permissive = false) of net/mail.
consumeAtom(s) ==
    LET i    == SpanLen(s, Atext \cup {"."})
        atom == Upto(s, i)
    IN  [ok   |-> /\ i # 0
                  /\ atom[1] # "."
                  /\ atom[i] # "."
                  /\ \A k \in 1..(i - 1) : ~(atom[k] = "." /\ atom[k + 1] = "."),
         rest |-> From(s, i)]

\* mail.ParseAddress(s) returns no error.  Without '<', '"', '(' and ';' in
\* the alphabet an address is an addr-spec: dot-atom "@" dot-atom.
ParseAddressOk(s) ==
    LET local == consumeAtom(skipSpace(s))
    IN  /\ local.ok
        /\ HasPrefix(local.rest, <<"@">>)
        /\ LET domain == consumeAtom(skipSpace(Tail(local.rest)))
           IN  domain.ok /\ skipSpace(domain.rest) = << >>

IsValidMailAddress(s) ==
    IF ~ParseAddressOk(s) THEN [ok |-> FALSE, err |-> "ErrInvalidMailAddress"]
    ELSE [ok |-> TRUE, err |-> "nil"]

(***************************************************************************)
(* time.Parse under the layouts RFC822 and RFC1123.  A parser step returns *)
(* [ok, rest, n]: whether it matched, the text left, the number read.      *)
(***************************************************************************)
ToLower(c) ==
    IF c \in Upper
    THEN LET U2L == [x \in Upper |->
                 CASE x = "A" -> "a" [] x = "B" -> "b" [] x = "C" -> "c" [] x = "D" -> "d"
                   [] x = "E" -> "e" [] x = "F" -> "f" [] x = "G" -> "g" [] x = "H" -> "h"
                   [] x = "I" -> "i" [] x = "J" -> "j" [] x = "K" -> "k" [] x = "L" -> "l"
                   [] x = "M" -> "m" [] x = "N" -> "n" [] x = "O" -> "o" [] x = "P" -> "p"
                   [] x = "Q" -> "q" [] x = "R" -> "r" [] x = "S" -> "s" [] x = "T" -> "t"
                   [] x = "U" -> "u" [] x = "V" -> "v" [] x = "W" -> "w" [] x = "X" -> "x"
                   [] x = "Y" -> "y" [] x = "Z" -> "z"]
         IN  U2L[c]
    ELSE c

shortMonthNames ==
    << <<"j", "a", "n">>, <<"f", "e", "b">>, <<"m", "a", "r">>, <<"a", "p", "r">>,
       <<"m", "a", "y">>, <<"j", "u", "n">>, <<"j", "u", "l">>, <<"a", "u", "g">>,
       <<"s", "e", "p">>, <<"o", "c", "t">>, <<"n", "o", "v">>, <<"d", "e", "c">> >>

shortDayNames ==
    << <<"s", "u", "n">>, <<"m", "o", "n">>, <<"t", "u", "e">>, <<"w", "e", "d">>,
       <<"t", "h", "u">>, <<"f", "r", "i">>, <<"s", "a", "t">> >>

Bad == [ok |-> FALSE, rest |-> << >>, n |-> 0]

\* lookup(tab, val): the case-insensitive match of a three-letter name.
lookup(tab, val) ==
    IF Len(val) < 3 THEN Bad
    ELSE LET w == [k \in 1..3 |-> ToLower(val[k])]
         IN  IF \E m \in 1..Len(tab) : tab[m] = w
             THEN [ok |-> TRUE, rest |-> From(val, 3),
                   n |-> CHOOSE m \in 1..Len(tab) : tab[m] = w]
             ELSE Bad

isDigit(s, i) == Len(s) > i /\ s[i + 1] \in Digits

getnum(s, fixed) ==
    IF ~isDigit(s, 0) THEN Bad
    ELSE IF ~isDigit(s, 1)
    THEN IF fixed THEN Bad ELSE [ok |-> TRUE, rest |-> From(s, 1), n |-> DigitOf(s[1])]
    ELSE [ok |-> TRUE, rest |-> From(s, 2), n |-> DigitOf(s[1]) * 10 + DigitOf(s[2])]

\* skip(value, " "): a space of the layout stands for any run of spaces.
skipSp(value) ==
    IF value # << >> /\ value[1] # " " THEN Bad
    ELSE [ok |-> TRUE, rest |-> skipSpace(value), n |-> 0]

\* skip(value, c) for a character c that is not a space.
skipCh(value, c) ==
    IF value = << >> \/ value[1] # c THEN Bad
    ELSE [ok |-> TRUE, rest |-> Tail(value), n |-> 0]

\* parseSignedOffset: the length of a leading +hh or -hh offset, 0 if none.
parseSignedOffset(value) ==
    IF value = << >> \/ value[1] \notin {"-", "+"} THEN 0
    ELSE LET k == SpanLen(Tail(value), Digits)
             x == ParseUintLoop(SubSeq(value, 2, k + 1), 1, << >>)
         IN  IF k = 0 \/ x.err # "nil" \/ NumLess(U(23), x.n) THEN 0 ELSE k + 1

\* parseTimeZone: [ok, n] with n the length of the zone abbreviation.
parseTimeZone(value) ==
    IF Len(value) < 3 THEN [ok |-> FALSE, n |-> 0]
    ELSE IF Len(value) >= 4 /\ Upto(value, 4) \in {<<"C", "h", "S", "T">>, <<"M", "e", "S", "T">>}
    THEN [ok |-> TRUE, n |-> 4]
    ELSE IF Upto(value, 3) = <<"G", "M", "T">>
    THEN [ok |-> TRUE, n |-> 3 + parseSignedOffset(From(value, 3))]
    ELSE IF value[1] \in {"+", "-"}
    THEN [ok |-> parseSignedOffset(value) > 0, n |-> parseSignedOffset(value)]
    ELSE LET up     == SpanLen(value, Upper)
             nUpper == IF up > 6 THEN 6 ELSE up
         IN  IF nUpper = 5 /\ value[5] = "T" THEN [ok |-> TRUE, n |-> 5]
             ELSE IF nUpper = 4 /\ (value[4] = "T" \/ Upto(value, 4) = <<"W", "I", "T", "A">>)
             THEN [ok |-> TRUE, n |-> 4]
             ELSE IF nUpper = 3 THEN [ok |-> TRUE, n |-> 3]
             ELSE [ok |-> FALSE, n |-> 0]

\* The stdTZ chunk ("MST") of a layout.
parseTZ(value) ==
    IF HasPrefix(value, <<"U", "T", "C">>) THEN [ok |-> TRUE, rest |-> From(value, 3), n |-> 0]
    ELSE LET z == parseTimeZone(value)
         IN  IF z.ok THEN [ok |-> TRUE, rest |-> From(value, z.n), n |-> 0] ELSE Bad

isLeap(year) == year % 4 = 0 /\ (year % 100 # 0 \/ year % 400 = 0)

daysIn(m, year) ==
    IF m = 2 THEN (IF isLeap(year) THEN 29 ELSE 28)
    ELSE IF m \in {4, 6, 9, 11} THEN 30 ELSE 31

\* The state of a parse: whether the text matched so far, the text left and
\* the day, month and year read.
Parsing(s) == [ok |-> TRUE, rest |-> s, day |-> 0, month |-> 0, year |-> 0]

\* A step that reads no number: res is [ok, rest, n].
Step(p, res) == IF ~p.ok THEN p ELSE [p EXCEPT !.ok = res.ok, !.rest = res.rest]

\* The chunk "02" (stdZeroDay).
pDay(p) == IF ~p.ok THEN p ELSE [Step(p, getnum(p.rest, TRUE)) EXCEPT !.day = getnum(p.rest, TRUE).n]

\* The chunk "Jan" (stdMonth).
pMonth(p) ==
    IF ~p.ok THEN p
    ELSE [Step(p, lookup(shortMonthNames, p.rest)) EXCEPT !.month = lookup(shortMonthNames, p.rest).n]

\* The chunk "Mon" (stdWeekDay).
pWeekDay(p) == IF ~p.ok THEN p ELSE Step(p, lookup(shortDayNames, p.rest))

\* atoi of package time on a two-character year: an optional sign, then digits.
atoi2(p) ==
    IF p[1] \in Digits /\ p[2] \in Digits
    THEN [ok |-> TRUE, rest |-> << >>, n |-> DigitOf(p[1]) * 10 + DigitOf(p[2])]
    ELSE IF p[1] = "+" /\ p[2] \in Digits THEN [ok |-> TRUE, rest |-> << >>, n |-> DigitOf(p[2])]
    ELSE IF p[1] = "-" /\ p[2] \in Digits THEN [ok |-> TRUE, rest |-> << >>, n |-> 0 - DigitOf(p[2])]
    ELSE Bad

\* The chunk "06" (stdYear).
pYear(p) ==
    IF ~p.ok THEN p
    ELSE IF Len(p.rest) < 2 \/ ~atoi2(Upto(p.rest, 2)).ok THEN [p EXCEPT !.ok = FALSE]
    ELSE [p EXCEPT !.rest = From(p.rest, 2),
                   !.year = IF atoi2(Upto(p.rest, 2)).n >= 69
                            THEN atoi2(Upto(p.rest, 2)).n + 1900
                            ELSE atoi2(Upto(p.rest, 2)).n + 2000]

\* The chunk "2006" (stdLongYear).
pLongYear(p) ==
    IF ~p.ok THEN p
    ELSE IF Len(p.rest) < 4 \/ \E k \in 1..4 : p.rest[k] \notin Digits THEN [p EXCEPT !.ok = FALSE]
    ELSE [p EXCEPT !.rest = From(p.rest, 4),
                   !.year = DigitOf(p.rest[1]) * 1000 + DigitOf(p.rest[2]) * 100
                            + DigitOf(p.rest[3]) * 10 + DigitOf(p.rest[4])]

\* The chunk "15" (stdHour): one or two digits, below 24.
pHour(p) ==
    IF ~p.ok THEN p
    ELSE IF getnum(p.rest, FALSE).n >= 24 THEN [p EXCEPT !.ok = FALSE]
    ELSE Step(p, getnum(p.rest, FALSE))

\* The chunk "04" (stdZeroMinute): two digits, below 60.
pMinute(p) ==
    IF ~p.ok THEN p
    ELSE IF getnum(p.rest, TRUE).n >= 60 THEN [p EXCEPT !.ok = FALSE]
    ELSE Step(p, getnum(p.rest, TRUE))

\* A fractional second after the seconds: '.' or ',' and digits.
pFraction(p) ==
    IF p.ok /\ Len(p.rest) >= 2 /\ p.rest[1] \in {".", ","} /\ isDigit(p.rest, 1)
    THEN [p EXCEPT !.rest = From(p.rest, 1 + SpanLen(Tail(p.rest), Digits))]
    ELSE p

\* The chunk "05" (stdZeroSecond) with the fractional second it may take.
pSecond(p) == pFraction(pMinute(p))

\* A space of the layout.
pSp(p) == IF ~p.ok THEN p ELSE Step(p, skipSp(p.rest))

\* A character of the layout that is not a space.
pCh(p, c) == IF ~p.ok THEN p ELSE Step(p, skipCh(p.rest, c))

\* The chunk "MST" (stdTZ).
pTZ(p) == IF ~p.ok THEN p ELSE Step(p, parseTZ(p.rest))

\* The end of the layout: no text is left and the day is one of the month.
pEnd(p) == p.ok /\ p.rest = << >> /\ p.day >= 1 /\ p.day <= daysIn(p.month, p.year)

\* One chunk of a layout applied to the parse p.
Chunk(c, p) ==
    CASE c = "02" -> pDay(p)
      [] c = "Jan" -> pMonth(p)
      [] c = "Mon" -> pWeekDay(p)
      [] c = "06" -> pYear(p)
      [] c = "2006" -> pLongYear(p)
      [] c = "15" -> pHour(p)
      [] c = "04" -> pMinute(p)
      [] c = "05" -> pSecond(p)
      [] c = "MST" -> pTZ(p)
      [] c = " " -> pSp(p)
      [] OTHER -> pCh(p, c)

\* "02 Jan 06 15:04 MST"
RFC822 == <<"02", " ", "Jan", " ", "06", " ", "15", ":", "04", " ", "MST">>

\* "Mon, 02 Jan 2006 15:04:05 MST"
RFC1123 ==
    <<"Mon", ",", " ", "02", " ", "Jan", " ", "2006", " ", "15", ":", "04", ":", "05", " ", "MST">>

\* The loop of time.Parse over the chunks of the layout from chunk i on.
RECURSIVE ParseChunks(_, _, _)
ParseChunks(layout, i, p) ==
    IF i > Len(layout) \/ ~p.ok THEN p ELSE ParseChunks(layout, i + 1, Chunk(layout[i], p))

\* time.Parse(layout, s) returns no error.
ParseOk(layout, s) == pEnd(ParseChunks(layout, 1, Parsing(s)))

IsValidDate(s) ==
    IF ~ParseOk(RFC822, s) /\ ~ParseOk(RFC1123, s) THEN [ok |-> FALSE, err |-> "ErrInvalidDate"]
    ELSE [ok |-> TRUE, err |-> "nil"]

(***************************************************************************)
(* Errors.  An error wraps one of the Err* variables (kind) in a message   *)
(* built from a format (form), the tag in XMLName.Local, the attribute,    *)
(* the value printed and the text that follows the wrapped error (detail). *)
(***************************************************************************)
ErrKinds ==
    {"ErrEmptyValue", "ErrNonEmptyValue", "ErrInvalidElement", "ErrInvalidValue",
     "ErrInvalidDate", "ErrInvalidMailAddress", "ErrInvalidURI"}

\* fmt.Sprintf("Element <%s> value '%s' is invalid", r.XMLName.Local, r.CharData)
MsgElemValue(r) == [form |-> "ElemValue", tag |-> r.XMLName, attr |-> "", value |-> r.CharData]

\* fmt.Sprintf("Element <%s> is invalid", r.XMLName.Local)
MsgElem(r) == [form |-> "Elem", tag |-> r.XMLName, attr |-> "", value |-> << >>]

\* fmt.Sprintf("Attribute 'a' of <%s> is required", r.XMLName.Local)
MsgAttrRequired(r, a) == [form |-> "AttrRequired", tag |-> r.XMLName, attr |-> a, value |-> << >>]

\* fmt.Sprintf("Attribute 'a' of <%s> value '%s' is invalid", r.XMLName.Local, *r.A)
MsgAttrValue(r, a, v) == [form |-> "AttrValue", tag |-> r.XMLName, attr |-> a, value |-> v]

\* fmt.Errorf("%s: %w<detail>", msg, err)
Errorf(msg, kind, detail) ==
    [kind |-> kind, form |-> msg.form, tag |-> msg.tag, attr |-> msg.attr,
     value |-> msg.value, detail |-> detail]

\* isValid, errs := true, []error{}
Start == [panic |-> FALSE, ok |-> TRUE, errs |-> << >>]

\* A variant of the failing step that appends the error and keeps the verdict.
Fail_KeepVerdict(acc, e) == [acc EXCEPT !.errs = Append(acc.errs, e)]

\* isValid = false; errs = append(errs, e)
Fail(acc, e) == [acc EXCEPT !.ok = FALSE, !.errs = Append(acc.errs, e)]

\* if ok, err := check; !ok { isValid = false; errs = append(errs, ...) }
Check(acc, res, msg) == IF ~res.ok THEN Fail(acc, Errorf(msg, res.err, "")) ELSE acc

\* A run-time panic: the call returns nothing.
Panic == [panic |-> TRUE, ok |-> FALSE, errs |-> << >>]

\* The result of an IsValid that returns a bool alone.
Bool(b) == [panic |-> FALSE, ok |-> b, errs |-> << >>]

(***************************************************************************)
(* Leaf elements.                                                          *)
(***************************************************************************)
Version_IsValid(r) == Bool(r = <<"2", ".", "0">>)

Title_IsValid(r) == Check(Start, IsNotEmpty(r.CharData), MsgElemValue(r))

\* A variant of Link.IsValid that stops at the first check that fails.
Link_IsValid_FirstOnly(r) ==
    LET a1 == Check(Start, IsNotEmpty(r.CharData), MsgElemValue(r))
    IN  IF ~a1.ok THEN a1 ELSE Check(a1, IsValidURI(r.CharData), MsgElemValue(r))

Link_IsValid(r) ==
    LET a1 == Check(Start, IsNotEmpty(r.CharData), MsgElemValue(r))
    IN  Check(a1, IsValidURI(r.CharData), MsgElemValue(r))

Description_IsValid(r) == Check(Start, IsNotEmpty(r.CharData), MsgElemValue(r))

PubDate_IsValid(r) ==
    LET a1 == Check(Start, IsNotEmpty(r.CharData), MsgElemValue(r))
    IN  Check(a1, IsValidDate(r.CharData), MsgElemValue(r))

LastBuildDate_IsValid(r) ==
    LET a1 == Check(Start, IsNotEmpty(r.CharData), MsgElemValue(r))
    IN  Check(a1, IsValidDate(r.CharData), MsgElemValue(r))

\* A variant of Category.IsValid that wants a URI as domain.
Category_IsValid_DomainURI(r) ==
    LET a1 == Check(Start, IsNotEmpty(r.CharData), MsgElemValue(r))
    IN  IF r.Domain # << >>
        THEN Check(Check(a1, IsNotEmpty(r.Domain[1]), MsgAttrValue(r, "domain", r.Domain[1])),
                   IsValidURI(r.Domain[1]), MsgAttrValue(r, "domain", r.Domain[1]))
        ELSE a1

Category_IsValid(r) ==
    LET a1 == Check(Start, IsNotEmpty(r.CharData), MsgElemValue(r))
    IN  IF r.Domain # << >>
        THEN Check(a1, IsNotEmpty(r.Domain[1]), MsgAttrValue(r, "domain", r.Domain[1]))
        ELSE a1

\* A variant of the required attribute that reports an empty value as it
\* reports an absent attribute.
RequiredNotEmpty_EmptyAbsent(acc, r, a, p) ==
    IF p = << >> \/ p[1] = << >>
    THEN Fail(acc, Errorf(MsgAttrRequired(r, a), "ErrInvalidElement", ""))
    ELSE acc

\* A required attribute that takes IsNotEmpty alone (domain, path,
\* registerProcedure of <cloud>, type of <enclosure>).
RequiredNotEmpty(acc, r, a, p) ==
    IF p = << >> THEN Fail(acc, Errorf(MsgAttrRequired(r, a), "ErrInvalidElement", ""))
    ELSE Check(acc, IsNotEmpty(p[1]), MsgAttrValue(r, a, p[1]))

\* A required attribute that takes IsNotEmpty and IsValidURI (url of <source>
\* and of <enclosure>).
RequiredURI(acc, r, a, p) ==
    IF p = << >> THEN Fail(acc, Errorf(MsgAttrRequired(r, a), "ErrInvalidElement", ""))
    ELSE LET a1 == Check(acc, IsNotEmpty(p[1]), MsgAttrValue(r, a, p[1]))
         IN  Check(a1, IsValidURI(p[1]), MsgAttrValue(r, a, p[1]))

\* The port check of Cloud.IsValid: err != nil || (i < 1 && i > 65535).
PortInvalid(port) ==
    LET u == ParseUint(port)
    IN  u.err # "nil" \/ (NumLess(u.n, U(1)) /\ NumLess(U(65535), u.n))

\* A variant of the port check that takes the attribute as optional.
Cloud_Port_Optional(acc, r) ==
    IF r.Port = << >>
    THEN acc
    ELSE IF PortInvalid(r.Port[1])
    THEN Fail(acc, Errorf(MsgAttrValue(r, "port", r.Port[1]), "ErrInvalidValue",
                          ": must be a valid port (1-65535)"))
    ELSE acc

Cloud_Port(acc, r) ==
    IF r.Port = << >>
    THEN Fail(acc, Errorf(MsgAttrRequired(r, "port"), "ErrInvalidElement", ""))
    ELSE IF PortInvalid(r.Port[1])
    THEN Fail(acc, Errorf(MsgAttrValue(r, "port", r.Port[1]), "ErrInvalidValue",
                          ": must be a valid port (1-65535)"))
    ELSE acc

\* A variant of the protocol check that takes every non-empty value.
Cloud_Protocol_NotEmpty(acc, r) ==
    IF r.Protocol = << >>
    THEN Fail(acc, Errorf(MsgAttrRequired(r, "protocol"), "ErrInvalidElement", ""))
    ELSE IF r.Protocol[1] = << >>
    THEN Fail(acc, Errorf(MsgAttrValue(r, "protocol", r.Protocol[1]), "ErrInvalidValue",
                          ": must be one of \"xml-rpc\", \"soap\", or \"http-post\""))
    ELSE acc

Cloud_Protocol(acc, r) ==
    IF r.Protocol = << >>
    THEN Fail(acc, Errorf(MsgAttrRequired(r, "protocol"), "ErrInvalidElement", ""))
    ELSE IF /\ r.Protocol[1] # <<"x", "m", "l", "-", "r", "p", "c">>
            /\ r.Protocol[1] # <<"s", "o", "a", "p">>
            /\ r.Protocol[1] # <<"h", "t", "t", "p", "-", "p", "o", "s", "t">>
    THEN Fail(acc, Errorf(MsgAttrValue(r, "protocol", r.Protocol[1]), "ErrInvalidValue",
                          ": must be one of \"xml-rpc\", \"soap\", or \"http-post\""))
    ELSE acc

Cloud_IsValid(r) ==
    LET a1 == Check(Start, IsEmpty(r.CharData), MsgElem(r))
        a2 == RequiredNotEmpty(a1, r, "domain", r.Domain)
        a3 == Cloud_Port(a2, r)
        a4 == RequiredNotEmpty(a3, r, "path", r.Path)
        a5 == RequiredNotEmpty(a4, r, "registerProcedure", r.RegisterProcedure)
    IN  Cloud_Protocol(a5, r)

\* err != nil || i < 0 of TTL.IsValid and of the length of <enclosure>.
UintInvalid(s) ==
    LET u == ParseUint(s)
    IN  u.err # "nil" \/ NumLess(u.n, << >>)

TTL_IsValid(r) ==
    LET a1 == Check(Start, IsNotEmpty(r.CharData), MsgElemValue(r))
    IN  IF UintInvalid(r.CharData)
        THEN Fail(a1, Errorf(MsgElemValue(r), "ErrInvalidValue", ": must be a positive integer"))
        ELSE a1

\* return true, nil
Image_IsValid(r) == Start

Width_IsValid(r) ==
    LET u == ParseUint(r)
    IN  Bool(~(u.err # "nil" \/ NumLess(U(144), u.n)))

Height_IsValid(r) ==
    LET u == ParseUint(r)
    IN  Bool(~(u.err # "nil" \/ NumLess(U(400), u.n)))

Name_IsValid(r) == Check(Start, IsNotEmpty(r.CharData), MsgElemValue(r))

\* A variant of Source.IsValid that wants character data.
Source_IsValid_NotEmpty(r) ==
    RequiredURI(Check(Start, IsNotEmpty(r.CharData), MsgElemValue(r)), r, "url", r.URL)

Source_IsValid(r) == RequiredURI(Start, r, "url", r.URL)

\* A variant of the length check that takes the attribute as optional.
Enclosure_Length_Optional(acc, r) ==
    IF r.Length = << >>
    THEN acc
    ELSE IF UintInvalid(r.Length[1])
    THEN Fail(acc, Errorf(MsgAttrValue(r, "length", r.Length[1]), "ErrInvalidValue",
                          ": must be a positive integer"))
    ELSE acc

Enclosure_Length(acc, r) ==
    IF r.Length = << >>
    THEN Fail(acc, Errorf(MsgAttrRequired(r, "length"), "ErrInvalidElement", ""))
    ELSE IF UintInvalid(r.Length[1])
    THEN Fail(acc, Errorf(MsgAttrValue(r, "length", r.Length[1]), "ErrInvalidValue",
                          ": must be a positive integer"))
    ELSE acc

\* A variant of Enclosure.IsValid that checks type before length.
Enclosure_IsValid_TypeFirst(r) ==
    LET a1 == Check(Start, IsEmpty(r.CharData), MsgElem(r))
        a2 == RequiredURI(a1, r, "url", r.URL)
        a3 == RequiredNotEmpty(a2, r, "type", r.Type)
    IN  Enclosure_Length(a3, r)

Enclosure_IsValid(r) ==
    LET a1 == Check(Start, IsEmpty(r.CharData), MsgElem(r))
        a2 == RequiredURI(a1, r, "url", r.URL)
        a3 == Enclosure_Length(a2, r)
    IN  RequiredNotEmpty(a3, r, "type", r.Type)

\* A variant of GUID.IsValid that takes an absent isPermaLink as "true".
GUID_IsValid_DefaultTrue(r) ==
    LET a1 == Check(Start, IsNotEmpty(r.CharData), MsgElemValue(r))
        a2 == IF /\ r.IsPermaLink # << >>
                 /\ r.IsPermaLink[1] # <<"t", "r", "u", "e">>
                 /\ r.IsPermaLink[1] # <<"f", "a", "l", "s", "e">>
              THEN Fail(a1, Errorf(MsgAttrValue(r, "isPermaLink", r.IsPermaLink[1]),
                                   "ErrInvalidValue", ": must be \"true\" or \"false\""))
              ELSE a1
    IN  IF r.IsPermaLink = << >> \/ r.IsPermaLink[1] = <<"t", "r", "u", "e">>
        THEN Check(a2, IsValidURI(r.CharData), MsgElemValue(r))
        ELSE a2

\* A variant of GUID.IsValid that takes an empty isPermaLink as absent.
GUID_IsValid_EmptyAbsent(r) ==
    LET a1 == Check(Start, IsNotEmpty(r.CharData), MsgElemValue(r))
        a2 == IF /\ r.IsPermaLink # << >>
                 /\ r.IsPermaLink[1] # << >>
                 /\ r.IsPermaLink[1] # <<"t", "r", "u", "e">>
                 /\ r.IsPermaLink[1] # <<"f", "a", "l", "s", "e">>
              THEN Fail(a1, Errorf(MsgAttrValue(r, "isPermaLink", r.IsPermaLink[1]),
                                   "ErrInvalidValue", ": must be \"true\" or \"false\""))
              ELSE a1
    IN  IF r.IsPermaLink # << >> /\ r.IsPermaLink[1] = <<"t", "r", "u", "e">>
        THEN Check(a2, IsValidURI(r.CharData), MsgElemValue(r))
        ELSE a2

GUID_IsValid(r) ==
    LET a1 == Check(Start, IsNotEmpty(r.CharData), MsgElemValue(r))
        a2 == IF /\ r.IsPermaLink # << >>
                 /\ r.IsPermaLink[1] # <<"t", "r", "u", "e">>
                 /\ r.IsPermaLink[1] # <<"f", "a", "l", "s", "e">>
              THEN Fail(a1, Errorf(MsgAttrValue(r, "isPermaLink", r.IsPermaLink[1]),
                                   "ErrInvalidValue", ": must be \"true\" or \"false\""))
              ELSE a1
    IN  IF r.IsPermaLink # << >> /\ r.IsPermaLink[1] = <<"t", "r", "u", "e">>
        THEN Check(a2, IsValidURI(r.CharData), MsgElemValue(r))
        ELSE a2

Comments_IsValid(r) ==
    LET a1 == Check(Start, IsNotEmpty(r.CharData), MsgElemValue(r))
    IN  Check(a1, IsValidURI(r.CharData), MsgElemValue(r))

Author_IsValid(r) ==
    LET a1 == Check(Start, IsNotEmpty(r.CharData), MsgElemValue(r))
    IN  Check(a1, IsValidMailAddress(r.CharData), MsgElemValue(r))

(***************************************************************************)
(* The struct types as package reflect sees them: the fields in declared   *)
(* order, each with its name, the name of its Go type (of the type pointed *)
(* to or held, for a pointer or a slice) and its reflect.Kind.             *)
(***************************************************************************)
F(name, type, kind) == [name |-> name, type |-> type, kind |-> kind]

XMLNameField == F("XMLName", "xml.Name", "Struct")

CharDataField == F("CharData", "byte", "Slice")

RSSFields ==
    <<XMLNameField, F("Version", "Version", "String"), F("Channel", "Channel", "Ptr")>>

ChannelFields ==
    <<XMLNameField,
      F("Title", "Title", "Struct"),
      F("Link", "Link", "Struct"),
      F("Description", "Description", "Struct"),
      F("Language", "Language", "String"),
      F("Copyright", "Copyright", "String"),
      F("ManagingEditor", "ManagingEditor", "String"),
      F("WebMaster", "WebMaster", "String"),
      F("PubDate", "PubDate", "Struct"),
      F("LastBuildDate", "LastBuildDate", "Struct"),
      F("Category", "Category", "Struct"),
      F("Generator", "Generator", "String"),
      F("Docs", "Docs", "String"),
      F("Cloud", "Cloud", "Struct"),
      F("TTL", "TTL", "Struct"),
      F("Image", "Image", "Struct"),
      F("Rating", "Rating", "String"),
      F("TextInput", "TextInput", "Struct"),
      F("SkipHours", "SkipHours", "Struct"),
      F("SkipDays", "SkipDays", "Struct"),
      F("Item", "Item", "Slice")>>

LeafFields == <<XMLNameField, CharDataField>>

CategoryFields == <<XMLNameField, CharDataField, F("Domain", "Domain", "Ptr")>>

CloudFields ==
    <<XMLNameField, CharDataField,
      F("Domain", "Domain", "Ptr"),
      F("Port", "Port", "Ptr"),
      F("Path", "Path", "Ptr"),
      F("RegisterProcedure", "RegisterProcedure", "Ptr"),
      F("Protocol", "Protocol", "Ptr")>>

ImageFields ==
    <<XMLNameField,
      F("URL", "URL", "Ptr"),
      F("Title", "Title", "Struct"),
      F("Link", "Link", "Struct"),
      F("Width", "Width", "String"),
      F("Height", "Height", "String"),
      F("Description", "Description", "Struct")>>

TextInputFields ==
    <<XMLNameField,
      F("Title", "Title", "Ptr"),
      F("Description", "Description", "Ptr"),
      F("Name", "Name", "Ptr"),
      F("Link", "Link", "Ptr")>>

ItemFields ==
    <<XMLNameField,
      F("Title", "Title", "Ptr"),
      F("Link", "Link", "Ptr"),
      F("Description", "Description", "Ptr"),
      F("Source", "Source", "Ptr"),
      F("Enclosure", "Enclosure", "Ptr"),
      F("Category", "Category", "Ptr"),
      F("PubDate", "PubDate", "Ptr"),
      F("GUID", "GUID", "Ptr"),
      F("Comments", "Comments", "Ptr"),
      F("Author", "Author", "Ptr")>>

SourceFields == <<XMLNameField, CharDataField, F("URL", "URL", "Ptr")>>

EnclosureFields ==
    <<XMLNameField, CharDataField,
      F("URL", "URL", "Ptr"), F("Length", "Length", "Ptr"), F("Type", "Type", "Ptr")>>

GUIDFields == <<XMLNameField, CharDataField, F("IsPermaLink", "IsPermaLink", "Ptr")>>

SkipHoursFields == <<XMLNameField, F("Hour", "Hour", "Slice")>>

SkipDaysFields == <<XMLNameField, F("Day", "Day", "Slice")>>

Fields(T) ==
    CASE T = "RSS" -> RSSFields
      [] T = "Channel" -> ChannelFields
      [] T = "Category" -> CategoryFields
      [] T = "Cloud" -> CloudFields
      [] T = "Image" -> ImageFields
      [] T = "TextInput" -> TextInputFields
      [] T = "Item" -> ItemFields
      [] T = "Source" -> SourceFields
      [] T = "Enclosure" -> EnclosureFields
      [] T = "GUID" -> GUIDFields
      [] T = "SkipHours" -> SkipHoursFields
      [] T = "SkipDays" -> SkipDaysFields
      [] OTHER -> LeafFields

\* The name in the struct tag `xml:"..."` of the field n; for a struct type
\* n, the name in the tag of its field XMLName, which is also the name in the
\* tag of every field of that type.  The field Day of SkipDays, of type
\* []*Day, is the only field named Day.
XMLTag(n) ==
    CASE n = "RSS" -> "rss" [] n = "Version" -> "version" [] n = "Channel" -> "channel"
      [] n = "Title" -> "title" [] n = "Link" -> "link" [] n = "Description" -> "description"
      [] n = "Language" -> "language" [] n = "Copyright" -> "copyright"
      [] n = "ManagingEditor" -> "managingEditor" [] n = "WebMaster" -> "webMaster"
      [] n = "PubDate" -> "pubDate" [] n = "LastBuildDate" -> "lastBuildDate"
      [] n = "Category" -> "category" [] n = "Generator" -> "generator" [] n = "Docs" -> "docs"
      [] n = "Cloud" -> "cloud" [] n = "TTL" -> "ttl" [] n = "Image" -> "image"
      [] n = "Rating" -> "rating" [] n = "TextInput" -> "textInput"
      [] n = "SkipHours" -> "skipHours" [] n = "SkipDays" -> "skipDays" [] n = "Item" -> "item"
      [] n = "Domain" -> "domain" [] n = "Port" -> "port" [] n = "Path" -> "path"
      [] n = "RegisterProcedure" -> "registerProcedure" [] n = "Protocol" -> "protocol"
      [] n = "URL" -> "url" [] n = "Width" -> "width" [] n = "Height" -> "height"
      [] n = "Name" -> "name" [] n = "Hour" -> "hour" [] n = "Day" -> "hour"
      [] n = "Source" -> "source" [] n = "Enclosure" -> "enclosure" [] n = "GUID" -> "guid"
      [] n = "Length" -> "length" [] n = "Type" -> "type" [] n = "IsPermaLink" -> "isPermaLink"
      [] n = "Comments" -> "comments" [] n = "Author" -> "author"

\* The field n of the struct type T has the flag attr in its tag.
IsAttr(T, n) ==
    \/ n \in {"Version", "Domain", "Port", "Path", "RegisterProcedure", "Protocol", "Length",
              "Type", "IsPermaLink"}
    \/ (n = "URL" /\ T \in {"Source", "Enclosure"})

\* The field n of the struct type T has the flag omitempty in its tag.
OmitEmpty(T, n) ==
    \/ (T = "Channel" /\ n \notin {"XMLName", "Title", "Link", "Description"})
    \/ (T = "Item" /\ n # "XMLName")
    \/ (T = "Category" /\ n = "Domain")
    \/ (T = "Image" /\ n \in {"Width", "Height", "Description"})
    \/ (T = "GUID" /\ n = "IsPermaLink")

\* The types with a method IsValid() (bool, []error): they, and the pointers
\* to them, implement RSSElement.  The types whose IsValid returns a bool
\* alone (Version, Channel, Language, Copyright, ManagingEditor, WebMaster,
\* Generator, Docs, Width, Height, Rating, SkipHours, Hour, SkipDays, Day)
\* and the types without methods (xml.Name, []byte, Domain, Port, Path,
\* RegisterProcedure, Protocol, URL, Length, Type, IsPermaLink, []*Item) do
\* not.
RSSElement ==
    {"RSS", "Title", "Link", "Description", "PubDate", "LastBuildDate", "Category",
     "Cloud", "TTL", "Image", "TextInput", "Name", "Item", "Source", "Enclosure",
     "GUID", "Comments", "Author"}

\* t, ok := v.Field(i).Interface().(RSSElement): ok
Implements(f) == f.kind \in {"Struct", "Ptr"} /\ f.type \in RSSElement

\* The interface value holding field f of the struct v.
FieldValue(v, f) ==
    [T |-> f.type, ptr |-> f.kind = "Ptr",
     v |-> IF f.kind = "Ptr" THEN v[f.name] ELSE <<v[f.name]>>]

(***************************************************************************)
(* Validate and the elements that call it.                                 *)
(***************************************************************************)
RECURSIVE Validate(_), ValidateFields(_, _, _), IsValidOf(_), Item_IsValid(_),
          TextInput_IsValid(_), RSS_IsValid(_)

\* A variant of the loop of Validate that puts the errors of a field before
\* those of the fields declared before it.
ValidateFields_Prepend(r, i, acc) ==
    IF i > Len(Fields(r.T)) THEN acc
    ELSE LET f == Fields(r.T)[i]
             t == FieldValue(r.v[1], f)
         IN  IF ~Implements(f) THEN ValidateFields(r, i + 1, acc)
             ELSE IF t.ptr /\ t.v = << >> THEN ValidateFields(r, i + 1, acc)
             ELSE LET res == IsValidOf(t)
                  IN  IF res.panic THEN Panic
                      ELSE IF ~res.ok
                      THEN ValidateFields(r, i + 1,
                               [acc EXCEPT !.ok = FALSE, !.errs = res.errs \o acc.errs])
                      ELSE ValidateFields(r, i + 1, acc)

\* The loop of Validate over the fields of r from field i on.
ValidateFields(r, i, acc) ==
    IF i > Len(Fields(r.T)) THEN acc
    ELSE LET f == Fields(r.T)[i]
             t == FieldValue(r.v[1], f)
         IN  IF ~Implements(f) THEN ValidateFields(r, i + 1, acc)
             ELSE IF t.ptr /\ t.v = << >> THEN ValidateFields(r, i + 1, acc)
             ELSE LET res == IsValidOf(t)
                  IN  IF res.panic THEN Panic
                      ELSE IF ~res.ok
                      THEN ValidateFields(r, i + 1,
                               [acc EXCEPT !.ok = FALSE, !.errs = acc.errs \o res.errs])
                      ELSE ValidateFields(r, i + 1, acc)

\* A variant of Validate that evaluates the rules of an element without
\* children on the element itself.
Validate_WithOwnRules(r) ==
    IF r.ptr THEN Panic
    ELSE IF r.T \in {"Title", "GUID", "Comments", "Cloud"} THEN IsValidOf(r)
    ELSE ValidateFields(r, 1, Start)

\* Validate(r RSSElement): v.NumField() panics unless r holds a struct.
Validate(r) == IF r.ptr THEN Panic ELSE ValidateFields(r, 1, Start)

RSS_IsValid(r) == Validate([T |-> "RSS", ptr |-> FALSE, v |-> <<r>>])

\* A variant of TextInput.IsValid that reports title and link apart.
TextInput_IsValid_Each(r) ==
    LET e   == Errorf(MsgElem(r), "ErrInvalidElement",
                   ": <title>, <description>, <name> and <link> must be present")
        a0  == IF r.Title = << >> \/ r.Description = << >> \/ r.Name = << >>
               THEN Fail(Start, e) ELSE Start
        a1  == IF r.Link = << >> THEN Fail(a0, e) ELSE a0
        res == Validate([T |-> "TextInput", ptr |-> FALSE, v |-> <<r>>])
    IN  IF res.panic THEN Panic
        ELSE IF ~res.ok THEN [a1 EXCEPT !.ok = FALSE, !.errs = a1.errs \o res.errs]
        ELSE a1

TextInput_IsValid(r) ==
    LET a1  == IF r.Title = << >> \/ r.Description = << >> \/ r.Name = << >> \/ r.Link = << >>
               THEN Fail(Start, Errorf(MsgElem(r), "ErrInvalidElement",
                   ": <title>, <description>, <name> and <link> must be present"))
               ELSE Start
        res == Validate([T |-> "TextInput", ptr |-> FALSE, v |-> <<r>>])
    IN  IF res.panic THEN Panic
        ELSE IF ~res.ok THEN [a1 EXCEPT !.ok = FALSE, !.errs = a1.errs \o res.errs]
        ELSE a1

\* A variant of Item.IsValid that does not validate the children.
Item_IsValid_OwnOnly(r) ==
    IF /\ (r.Title = << >> \/ r.Title[1].CharData = << >>)
       /\ (r.Description = << >> \/ r.Description[1].CharData = << >>)
    THEN Fail(Start, Errorf(MsgElem(r), "ErrInvalidElement",
                            ": one of <title> or <description> must be present"))
    ELSE Start

\* A variant of Item.IsValid that wants both the title and the description.
Item_IsValid_Both(r) ==
    LET a1  == IF \/ (r.Title = << >> \/ r.Title[1].CharData = << >>)
                  \/ (r.Description = << >> \/ r.Description[1].CharData = << >>)
               THEN Fail(Start, Errorf(MsgElem(r), "ErrInvalidElement",
                   ": one of <title> or <description> must be present"))
               ELSE Start
        res == Validate([T |-> "Item", ptr |-> FALSE, v |-> <<r>>])
    IN  IF res.panic THEN Panic
        ELSE IF ~res.ok THEN [a1 EXCEPT !.ok = FALSE, !.errs = a1.errs \o res.errs]
        ELSE a1

Item_IsValid(r) ==
    LET a1  == IF /\ (r.Title = << >> \/ r.Title[1].CharData = << >>)
                  /\ (r.Description = << >> \/ r.Description[1].CharData = << >>)
               THEN Fail(Start, Errorf(MsgElem(r), "ErrInvalidElement",
                   ": one of <title> or <description> must be present"))
               ELSE Start
        res == Validate([T |-> "Item", ptr |-> FALSE, v |-> <<r>>])
    IN  IF res.panic THEN Panic
        ELSE IF ~res.ok THEN [a1 EXCEPT !.ok = FALSE, !.errs = a1.errs \o res.errs]
        ELSE a1

\* t.IsValid() on an interface value t: a method with a value receiver
\* called through a pointer dereferences it, and panics on nil.
IsValidOf(t) ==
    IF t.ptr /\ t.v = << >> THEN Panic
    ELSE LET r == t.v[1]
         IN  CASE t.T = "RSS" -> RSS_IsValid(r)
               [] t.T = "Title" -> Title_IsValid(r)
               [] t.T = "Link" -> Link_IsValid(r)
               [] t.T = "Description" -> Description_IsValid(r)
               [] t.T = "PubDate" -> PubDate_IsValid(r)
               [] t.T = "LastBuildDate" -> LastBuildDate_IsValid(r)
               [] t.T = "Category" -> Category_IsValid(r)
               [] t.T = "Cloud" -> Cloud_IsValid(r)
               [] t.T = "TTL" -> TTL_IsValid(r)
               [] t.T = "Image" -> Image_IsValid(r)
               [] t.T = "TextInput" -> TextInput_IsValid(r)
               [] t.T = "Name" -> Name_IsValid(r)
               [] t.T = "Item" -> Item_IsValid(r)
               [] t.T = "Source" -> Source_IsValid(r)
               [] t.T = "Enclosure" -> Enclosure_IsValid(r)
               [] t.T = "GUID" -> GUID_IsValid(r)
               [] t.T = "Comments" -> Comments_IsValid(r)
               [] t.T = "Author" -> Author_IsValid(r)

\* reflect.Indirect(reflect.ValueOf(t)).Kind() for the value of field f.
IndirectKind(t) ==
    IF t.ptr THEN (IF t.v = << >> THEN "Invalid" ELSE "Struct") ELSE "Struct"

\* reflect.Value.IsNil panics unless the kind is one that can hold nil.
IsNilPanics(kind) ==
    kind \notin {"Chan", "Func", "Interface", "Map", "Ptr", "Slice", "UnsafePointer"}

\* The loop of Channel.IsValid over the fields of r from field i on.
RECURSIVE ChannelFieldsFrom(_, _)
ChannelFieldsFrom(r, i) ==
    IF i > Len(ChannelFields) THEN Bool(TRUE)
    ELSE LET f == ChannelFields[i]
             t == FieldValue(r, f)
         IN  IF ~Implements(f) THEN ChannelFieldsFrom(r, i + 1)
             ELSE IF IsNilPanics(IndirectKind(t)) THEN Panic
             ELSE IF t.v = << >> THEN Bool(FALSE)
             ELSE ChannelFieldsFrom(r, i + 1)

Channel_IsValid(r) == ChannelFieldsFrom(r, 1)

Hour_IsValid(r) == Bool(~(r < 0 \/ r > 23))

\* for _, h := range r.Hour { if !h.IsValid() { return false } }: h is a
\* *Hour, and calling the value method on a nil h panics.
RECURSIVE HoursFrom(_, _)
HoursFrom(hours, i) ==
    IF i > Len(hours) THEN Bool(TRUE)
    ELSE IF hours[i] = << >> THEN Panic
    ELSE IF ~Hour_IsValid(hours[i][1]).ok THEN Bool(FALSE)
    ELSE HoursFrom(hours, i + 1)

\* A variant of SkipHours.IsValid that allows 23 hours at most.
SkipHours_IsValid_Below24(r) == IF Len(r.Hour) >= 24 THEN Bool(FALSE) ELSE HoursFrom(r.Hour, 1)

SkipHours_IsValid(r) == IF Len(r.Hour) > 24 THEN Bool(FALSE) ELSE HoursFrom(r.Hour, 1)

Day_IsValid(r) == Bool(TRUE)

RECURSIVE DaysFrom(_, _)
DaysFrom(days, i) ==
    IF i > Len(days) THEN Bool(TRUE)
    ELSE IF days[i] = << >> THEN Panic
    ELSE IF ~Day_IsValid(days[i][1]).ok THEN Bool(FALSE)
    ELSE DaysFrom(days, i + 1)

\* A variant of SkipDays.IsValid that takes no day without text.
SkipDays_IsValid_NotEmpty(r) ==
    IF Len(r.Day) > 7 THEN Bool(FALSE)
    ELSE IF \E i \in 1..Len(r.Day) : r.Day[i] = << >> THEN Panic
    ELSE Bool(\A i \in 1..Len(r.Day) : r.Day[i][1] # << >>)

SkipDays_IsValid(r) == IF Len(r.Day) > 7 THEN Bool(FALSE) ELSE DaysFrom(r.Day, 1)

(***************************************************************************)
(* Rendering and parsing: xml.Marshal and xml.Unmarshal of package         *)
(* encoding/xml applied to the struct types through their struct tags.     *)
(* An XML element is [name, attrs, text, kids]: the attributes in order    *)
(* as [name, value], the character data, the child elements in order.      *)
(* Bytes are written and read unchanged: the alphabet of the model holds   *)
(* no character that is escaped, and a nil []byte and an empty []byte are  *)
(* both << >>.                                                             *)
(***************************************************************************)
XMLElement(name, attrs, text, kids) ==
    [name |-> name, attrs |-> attrs, text |-> text, kids |-> kids]

XMLAttr(name, value) == [name |-> name, value |-> value]

\* The struct types: the types with a field XMLName.
IsStruct(T) == T \in RSSElement \cup {"Channel", "SkipHours", "SkipDays"}

\* The fields of T that are elements: neither XMLName, nor character data,
\* nor attributes.
IsChild(T, f) == f.name \notin {"XMLName", "CharData"} /\ ~IsAttr(T, f.name)

HasCharData(T) == \E i \in 1..Len(Fields(T)) : Fields(T)[i].name = "CharData"

DigitChar(d) ==
    CASE d = 0 -> "0" [] d = 1 -> "1" [] d = 2 -> "2" [] d = 3 -> "3" [] d = 4 -> "4"
      [] d = 5 -> "5" [] d = 6 -> "6" [] d = 7 -> "7" [] d = 8 -> "8" [] d = 9 -> "9"

\* strconv.FormatInt(n, 10)
RECURSIVE FormatUint(_)
FormatUint(n) == IF n < 10 THEN <<DigitChar(n)>> ELSE Append(FormatUint(n \div 10), DigitChar(n % 10))

FormatInt(n) == IF n < 0 THEN <<"-">> \o FormatUint(0 - n) ELSE FormatUint(n)

\* The value of the digits of an unsigned number.
RECURSIVE IntOf(_)
IntOf(n) == IF n = << >> THEN 0 ELSE 10 * IntOf(Upto(n, Len(n) - 1)) + n[Len(n)]

\* 1<<63
MinInt64Magnitude == <<9, 2, 2, 3, 3, 7, 2, 0, 3, 6, 8, 5, 4, 7, 7, 5, 8, 0, 8>>

\* strconv.ParseInt(s, 10, 0): an optional sign, then ParseUint; the numbers
\* of the model have at most nine digits.
ParseInt(s) ==
    IF s = << >> THEN [err |-> "ErrSyntax", n |-> 0]
    ELSE LET neg == s[1] = "-"
             u   == ParseUint(IF s[1] \in {"+", "-"} THEN From(s, 1) ELSE s)
         IN  IF u.err = "ErrSyntax" THEN [err |-> "ErrSyntax", n |-> 0]
             ELSE IF u.err = "ErrRange" \/ (~neg /\ ~NumLess(u.n, MinInt64Magnitude))
                     \/ (neg /\ NumLess(MinInt64Magnitude, u.n))
             THEN [err |-> "ErrRange", n |-> 0]
             ELSE [err |-> "nil", n |-> IF neg THEN 0 - IntOf(u.n) ELSE IntOf(u.n)]

RECURSIVE MarshalStruct(_, _)
RECURSIVE MarshalAttrs(_, _, _)
RECURSIVE MarshalKids(_, _, _)
RECURSIVE MarshalSlice(_, _, _)
RECURSIVE MarshalField(_, _, _)

\* The entries of the slice xs of the field f from the i-th on: a nil
\* pointer is written as nothing.
MarshalSlice(f, xs, i) ==
    IF i > Len(xs) THEN << >>
    ELSE (IF xs[i] = << >> THEN << >>
          ELSE IF IsStruct(f.type) THEN <<MarshalStruct(f.type, xs[i][1])>>
          ELSE IF f.type = "Hour"
          THEN <<XMLElement(XMLTag(f.name), << >>, FormatInt(xs[i][1]), << >>)>>
          ELSE <<XMLElement(XMLTag(f.name), << >>, xs[i][1], << >>)>>)
         \o MarshalSlice(f, xs, i + 1)

\* The elements written for the field f of a struct of type T holding x:
\* omitempty leaves out an empty string and an empty slice, a nil pointer is
\* always left out, a struct is always written.
MarshalField(T, f, x) ==
    CASE f.kind = "String" ->
             IF OmitEmpty(T, f.name) /\ x = << >> THEN << >>
             ELSE <<XMLElement(XMLTag(f.name), << >>, x, << >>)>>
      [] f.kind = "Struct" -> <<MarshalStruct(f.type, x)>>
      [] f.kind = "Ptr" ->
             IF x = << >> THEN << >>
             ELSE IF IsStruct(f.type) THEN <<MarshalStruct(f.type, x[1])>>
             ELSE <<XMLElement(XMLTag(f.name), << >>, x[1], << >>)>>
      [] f.kind = "Slice" -> MarshalSlice(f, x, 1)

\* The attributes of the struct v of type T from its i-th field on.
MarshalAttrs(T, v, i) ==
    IF i > Len(Fields(T)) THEN << >>
    ELSE LET f == Fields(T)[i]
         IN  (IF ~IsAttr(T, f.name) THEN << >>
              ELSE IF f.kind = "Ptr"
              THEN (IF v[f.name] = << >> THEN << >>
                    ELSE <<XMLAttr(XMLTag(f.name), v[f.name][1])>>)
              ELSE IF OmitEmpty(T, f.name) /\ v[f.name] = << >> THEN << >>
              ELSE <<XMLAttr(XMLTag(f.name), v[f.name])>>)
             \o MarshalAttrs(T, v, i + 1)

\* The child elements of the struct v of type T from its i-th field on.
MarshalKids(T, v, i) ==
    IF i > Len(Fields(T)) THEN << >>
    ELSE LET f == Fields(T)[i]
         IN  (IF IsChild(T, f) THEN MarshalField(T, f, v[f.name]) ELSE << >>)
             \o MarshalKids(T, v, i + 1)

\* The element of a struct: its name is the name in the tag of XMLName,
\* whatever the field XMLName holds.
MarshalStruct(T, v) ==
    XMLElement(XMLTag(T), MarshalAttrs(T, v, 1),
               IF HasCharData(T) THEN v.CharData ELSE << >>, MarshalKids(T, v, 1))

\* xml.Marshal(t): the elements written, none for a nil pointer.
Marshal(t) == IF t.v = << >> THEN << >> ELSE <<MarshalStruct(t.T, t.v[1])>>

\* The zero value of a field, and of the struct type T.
RECURSIVE ZeroOf(_)
ZeroField(f) ==
    IF f.name = "XMLName" THEN ""
    ELSE IF f.kind = "Struct" THEN ZeroOf(f.type)
    ELSE << >>

ZeroOf(T) ==
    [n \in {Fields(T)[i].name : i \in 1..Len(Fields(T))} |->
        ZeroField(CHOOSE f \in {Fields(T)[i] : i \in 1..Len(Fields(T))} : f.name = n)]

\* The result of a parse: the error, and the value read when there is none.
Parsed(v) == [err |-> "nil", v |-> <<v>>]

\* Nothing was parsed yet.
NotParsed == [err |-> "none", v |-> << >>]

ParseError(e) == [err |-> e, v |-> << >>]

RECURSIVE UnmarshalStruct(_, _)
RECURSIVE UnmarshalAttrs(_, _, _, _)
RECURSIVE UnmarshalKids(_, _, _, _)

\* The value of the attribute named a among attrs, as a pointer.
AttrValue(attrs, a) ==
    IF \E i \in 1..Len(attrs) : attrs[i].name = a
    THEN <<attrs[CHOOSE i \in 1..Len(attrs) :
                  attrs[i].name = a /\ \A j \in (i + 1)..Len(attrs) : attrs[j].name # a].value>>
    ELSE << >>

\* The attributes of the start element e copied into the fields of v from
\* the i-th on; an attribute without field is ignored, a field without
\* attribute is left as it is.
UnmarshalAttrs(T, e, v, i) ==
    IF i > Len(Fields(T)) THEN v
    ELSE LET f == Fields(T)[i]
             a == AttrValue(e.attrs, XMLTag(f.name))
         IN  IF ~IsAttr(T, f.name) \/ a = << >> THEN UnmarshalAttrs(T, e, v, i + 1)
             ELSE UnmarshalAttrs(T, e,
                      [v EXCEPT ![f.name] = IF f.kind = "Ptr" THEN a ELSE a[1]], i + 1)

\* The field of T that takes a child element named n, as a sequence of at
\* most one field.
ChildField(T, n) ==
    SelectSeq(Fields(T), LAMBDA f : IsChild(T, f) /\ XMLTag(f.name) = n)

\* The field f of v after reading the child element k into it.
UnmarshalField(f, x, k) ==
    CASE f.kind = "String" -> Parsed(k.text)
      [] f.kind = "Struct" -> UnmarshalStruct(f.type, k)
      [] f.kind = "Ptr" ->
             IF IsStruct(f.type)
             THEN LET r == UnmarshalStruct(f.type, k)
                  IN  IF r.err # "nil" THEN r ELSE Parsed(r.v)
             ELSE Parsed(<<k.text>>)
      [] f.kind = "Slice" ->
             IF IsStruct(f.type)
             THEN LET r == UnmarshalStruct(f.type, k)
                  IN  IF r.err # "nil" THEN r ELSE Parsed(Append(x, r.v))
             ELSE IF f.type = "Hour"
             THEN LET n == ParseInt(k.text)
                  IN  IF n.err # "nil" THEN ParseError(n.err) ELSE Parsed(Append(x, <<n.n>>))
             ELSE Parsed(Append(x, <<k.text>>))

\* The child elements of e from the i-th on read into v: a child without
\* field is skipped.
UnmarshalKids(T, e, v, i) ==
    IF i > Len(e.kids) THEN Parsed(v)
    ELSE LET fs == ChildField(T, e.kids[i].name)
         IN  IF fs = << >> THEN UnmarshalKids(T, e, v, i + 1)
             ELSE LET r == UnmarshalField(fs[1], v[fs[1].name], e.kids[i])
                  IN  IF r.err # "nil" THEN r
                      ELSE UnmarshalKids(T, e, [v EXCEPT ![fs[1].name] = r.v[1]], i + 1)

\* The element e read into a zero struct of type T: the name of the element
\* must be the name in the tag of XMLName, and is stored in XMLName.
UnmarshalStruct(T, e) ==
    IF e.name # XMLTag(T) THEN ParseError("UnmarshalError")
    ELSE LET v1 == [ZeroOf(T) EXCEPT !.XMLName = e.name]
             v2 == UnmarshalAttrs(T, e, v1, 1)
             v3 == IF HasCharData(T) THEN [v2 EXCEPT !.CharData = e.text] ELSE v2
         IN  UnmarshalKids(T, e, v3, 1)

\* xml.Unmarshal(data, &v) for a zero v of type T, data holding the elements
\* d: no element at all is an error (io.EOF).
Unmarshal(T, d) == IF d = << >> THEN ParseError("EOF") ELSE UnmarshalStruct(T, d[1])

(***************************************************************************)
(* The inputs: element trees as xml.Unmarshal builds them (XMLName set to  *)
(* the tag) and as a caller builds them directly (XMLName left empty).     *)
(***************************************************************************)
\* The longest list of items of a channel.
MaxItems == 2

\* The longest list of hours of a <skipHours>.
MaxHours == 25

\* The longest list of days of a <skipDays>.
MaxDays == 8

SX == <<"x">>

GoodURI == <<"h", "t", "t", "p", ":", "/", "/", "a">>

BadURI == <<"x", " ", "y">>

GoodDate == <<"0", "1", " ", "J", "a", "n", " ", "7", "0", " ", "0", "0", ":", "0", "0", " ", "G", "M", "T">>

GoodMail == <<"a", "@", "b">>

Str20 == <<"2", ".", "0">>

Str10 == <<"1", ".", "0">>

XmlRpc == <<"x", "m", "l", "-", "r", "p", "c">>

PortStrings ==
    {<< >>, <<"0">>, <<"1">>, <<"8", "0">>, <<"6", "5", "5", "3", "5">>,
     <<"6", "5", "5", "3", "6">>, <<"-", "1">>, SX,
     <<"1", "8", "4", "4", "6", "7", "4", "4", "0", "7", "3", "7", "0", "9", "5", "5", "1", "6", "1", "5">>,
     <<"1", "8", "4", "4", "6", "7", "4", "4", "0", "7", "3", "7", "0", "9", "5", "5", "1", "6", "1", "6">>}

ProtocolStrings ==
    {<< >>, XmlRpc, <<"s", "o", "a", "p">>, <<"h", "t", "t", "p", "-", "p", "o", "s", "t">>,
     <<"f", "t", "p">>, <<"S", "O", "A", "P">>}

\* nil, or a pointer to a member of S.
PtrTo(S) == {<< >>} \cup {<<x>> : x \in S}

Leaf(tag, c) == [XMLName |-> tag, CharData |-> c]

SourceOf(c, url) == [XMLName |-> "source", CharData |-> c, URL |-> url]

EnclosureOf(c, url, length, type) ==
    [XMLName |-> "enclosure", CharData |-> c, URL |-> url, Length |-> length, Type |-> type]

CategoryOf(tag, c, domain) == [XMLName |-> tag, CharData |-> c, Domain |-> domain]

GUIDOf(tag, c, p) == [XMLName |-> tag, CharData |-> c, IsPermaLink |-> p]

GoodEnclosure == EnclosureOf(<< >>, <<GoodURI>>, <<<<"0">>>>, <<SX>>)

BadEnclosure == EnclosureOf(SX, << >>, <<<<"-", "1">>>>, <<<< >>>>)

Items(tag, titles, links, descrs, sources, encls, cats, dates, guids, comms, authors) ==
    [XMLName : {tag}, Title : titles, Link : links, Description : descrs,
     Source : sources, Enclosure : encls, Category : cats,
     PubDate : dates, GUID : guids, Comments : comms, Author : authors]

Titles == PtrTo({Leaf("title", << >>), Leaf("title", SX)})

Links == PtrTo({Leaf("link", << >>), Leaf("link", GoodURI)})

Descriptions == PtrTo({Leaf("description", << >>), Leaf("description", SX)})

\* Items whose other children are each absent or invalid (and the source and
\* the guid also valid).
ItemsSparse ==
    Items("item", Titles, Links, Descriptions,
          PtrTo({SourceOf(SX, <<GoodURI>>), SourceOf(SX, << >>)}),
          PtrTo({BadEnclosure}),
          PtrTo({CategoryOf("category", << >>, << >>)}),
          PtrTo({Leaf("pubDate", SX)}),
          PtrTo({GUIDOf("guid", SX, << >>), GUIDOf("guid", << >>, << >>)}),
          PtrTo({Leaf("comments", BadURI)}),
          PtrTo({Leaf("author", SX)}))

\* Items whose other children are all present and valid.
ItemsFull(tag) ==
    Items(tag, Titles, Links, Descriptions,
          {<<SourceOf(SX, <<GoodURI>>)>>},
          {<<GoodEnclosure>>},
          {<<CategoryOf("category", SX, <<SX>>)>>},
          {<<Leaf("pubDate", GoodDate)>>},
          {<<GUIDOf("guid", GoodURI, <<<<"t", "r", "u", "e">>>>)>>},
          {<<Leaf("comments", GoodURI)>>},
          {<<Leaf("author", GoodMail)>>})

TextInputs ==
    [XMLName : {"textInput", ""},
     Title : Titles,
     Description : Descriptions,
     Name : PtrTo({Leaf("name", << >>), Leaf("name", SX)}),
     Link : PtrTo({Leaf("link", << >>), Leaf("link", GoodURI), Leaf("link", BadURI)})]

Clouds ==
    [XMLName : {"cloud"},
     CharData : {<< >>, SX},
     Domain : PtrTo({<< >>, SX}),
     Port : PtrTo(PortStrings),
     Path : PtrTo({<< >>, SX}),
     RegisterProcedure : PtrTo({<< >>, SX}),
     Protocol : PtrTo(ProtocolStrings)]

\* The zero values of the struct types.
ZeroLeaf == Leaf("", << >>)

ZeroCloud ==
    [XMLName |-> "", CharData |-> << >>, Domain |-> << >>, Port |-> << >>, Path |-> << >>,
     RegisterProcedure |-> << >>, Protocol |-> << >>]

ZeroImage ==
    [XMLName |-> "", URL |-> << >>, Title |-> ZeroLeaf, Link |-> ZeroLeaf, Width |-> << >>,
     Height |-> << >>, Description |-> ZeroLeaf]

ZeroTextInput ==
    [XMLName |-> "", Title |-> << >>, Description |-> << >>, Name |-> << >>, Link |-> << >>]

\* A channel with the given title, link, description and items, its other
\* children left at their zero value.
ChannelOf(title, link, description, items) ==
    [XMLName |-> "channel", Title |-> title, Link |-> link, Description |-> description,
     Language |-> << >>, Copyright |-> << >>, ManagingEditor |-> << >>, WebMaster |-> << >>,
     PubDate |-> ZeroLeaf, LastBuildDate |-> ZeroLeaf,
     Category |-> CategoryOf("", << >>, << >>), Generator |-> << >>, Docs |-> << >>,
     Cloud |-> ZeroCloud, TTL |-> ZeroLeaf, Image |-> ZeroImage, Rating |-> << >>,
     TextInput |-> ZeroTextInput,
     SkipHours |-> [XMLName |-> "", Hour |-> << >>],
     SkipDays |-> [XMLName |-> "", Day |-> << >>],
     Item |-> items]

ItemOf(title, description) ==
    [XMLName |-> "item", Title |-> title, Link |-> << >>, Description |-> description,
     Source |-> << >>, Enclosure |-> << >>, Category |-> << >>, PubDate |-> << >>,
     GUID |-> << >>, Comments |-> << >>, Author |-> << >>]

\* The entries of the item lists: nil, a valid item, two invalid items.
ItemEntries ==
    PtrTo({ItemOf(<<Leaf("title", SX)>>, << >>), ItemOf(<< >>, << >>),
           ItemOf(<<Leaf("title", << >>)>>, <<Leaf("description", SX)>>)})

SeqsUpTo(S, n) == UNION {[1..k -> S] : k \in 0..n}

Channels ==
    {ChannelOf(t, l, d, items) :
        t \in {Leaf("title", << >>), Leaf("title", SX)},
        l \in {Leaf("link", << >>), Leaf("link", GoodURI), Leaf("link", BadURI)},
        d \in {Leaf("description", << >>), Leaf("description", SX)},
        items \in SeqsUpTo(ItemEntries, MaxItems)}

RSSs == [XMLName : {"rss"}, Version : {<< >>, Str20, Str10}, Channel : PtrTo(Channels)]

\* The hours 0, 1, ..., 23, 0, ... in a list of length n.
HoursOf(n) == [i \in 1..n |-> <<(i - 1) % 24>>]

\* Lists of valid hours, and the same with the first or the last entry nil
\* or out of range.
HourLists ==
    UNION {{HoursOf(n)} \cup
           {[HoursOf(n) EXCEPT ![k] = h] : k \in {1, n} \cap (1..n), h \in {<< >>, <<24>>, <<0 - 1>>}} :
           n \in 0..MaxHours}

SkipHourss == [XMLName : {"skipHours"}, Hour : HourLists]

Monday == <<"M", "o", "n", "d", "a", "y">>

\* The text of a day: none, a word that names no day, the name of a day.
DayTexts == {<< >>, SX, Monday}

\* The day d in a list of length n.
DaysOf(n, d) == [i \in 1..n |-> <<d>>]

\* Lists of one day repeated, and the same with the first or the last entry
\* nil or another day.
DayLists ==
    UNION {{DaysOf(n, d)} \cup
           {[DaysOf(n, d) EXCEPT ![k] = h] :
               k \in {1, n} \cap (1..n), h \in PtrTo(DayTexts)} :
           n \in 0..MaxDays, d \in DayTexts}

SkipDayss == [XMLName : {"skipDays", ""}, Day : DayLists]

\* Documents to parse into a SkipDays: <skipDays> with up to three children
\* named day or hour.
SkipDaysDocuments ==
    {XMLElement("skipDays", << >>, << >>, kids) :
        kids \in SeqsUpTo({XMLElement("day", << >>, Monday, << >>),
                           XMLElement("day", << >>, SX, << >>),
                           XMLElement("hour", << >>, Monday, << >>)}, 3)}

\* Documents to parse into a GUID: <guid> and <item> with or without
\* attributes, known or not.
GUIDDocuments ==
    {XMLElement(n, attrs, c, << >>) :
        n \in {"guid", "item"},
        attrs \in {<< >>, <<XMLAttr("isPermaLink", << >>)>>, <<XMLAttr("isPermaLink", SX)>>,
                   <<XMLAttr("url", SX)>>, <<XMLAttr("url", SX), XMLAttr("isPermaLink", SX)>>},
        c \in {<< >>, GoodURI}}

\* Documents to parse into a TextInput: <textInput> with up to two children.
TextInputDocuments ==
    {XMLElement("textInput", << >>, << >>, kids) :
        kids \in SeqsUpTo({XMLElement("title", << >>, SX, << >>),
                           XMLElement("link", << >>, << >>, << >>),
                           XMLElement("item", << >>, SX, << >>)}, 2)}

\* The documents to parse into a value of type T.
Documents(T) ==
    CASE T = "SkipDays" -> SkipDaysDocuments
      [] T = "GUID" -> GUIDDocuments
      [] T = "TextInput" -> TextInputDocuments
      [] OTHER -> {}

\* Decimal numbers around the largest width and the largest height, a word
\* and a negative number; the empty string is an absent <width> or <height>.
Widths == {<< >>, <<"8", "8">>, <<"1", "4", "4">>, <<"1", "4", "5">>, SX, <<"-", "1">>}

Heights == {<< >>, <<"3", "1">>, <<"4", "0", "0">>, <<"4", "0", "1">>, SX}

Images ==
    [XMLName : {"image"},
     URL : PtrTo({GoodURI}),
     Title : {Leaf("title", SX)},
     Link : {Leaf("link", GoodURI), Leaf("link", << >>)},
     Width : Widths,
     Height : Heights,
     Description : {ZeroLeaf, Leaf("description", SX)}]

Titled == {Leaf(tag, c) : tag \in {"title", ""}, c \in {<< >>, SX}}

GUIDs ==
    {GUIDOf(tag, c, p) : tag \in {"guid", ""}, c \in {<< >>, SX, BadURI, GoodURI},
                         p \in PtrTo({<< >>, SX, <<"t", "r", "u", "e">>, <<"f", "a", "l", "s", "e">>})}

Commentss == {Leaf(tag, c) : tag \in {"comments", ""}, c \in {<< >>, BadURI, GoodURI}}

\* Character data: empty, a word, a URI, two words, a date, a mail address,
\* and numbers in and out of the range of ParseUint.
CharDatas ==
    {<< >>, SX, GoodURI, BadURI, GoodDate, GoodMail, <<"0">>, <<"6", "0">>, <<"-", "1">>}

Leaves(tag) == {Leaf(tag, c) : c \in CharDatas}

Categories ==
    {CategoryOf("category", c, d) : c \in {<< >>, SX}, d \in PtrTo({<< >>, SX, BadURI, GoodURI})}

Sources == {SourceOf(c, u) : c \in {<< >>, SX}, u \in PtrTo({<< >>, SX, BadURI, GoodURI})}

Enclosures ==
    {EnclosureOf(c, u, l, t) :
        c \in {<< >>, SX}, u \in PtrTo({<< >>, BadURI, GoodURI}),
        l \in PtrTo({<< >>, <<"0">>, <<"6", "0">>, <<"-", "1">>, SX}), t \in PtrTo({<< >>, SX})}

\* An element of type T held by value, and held by pointer.
ByValue(T, S) == {[T |-> T, ptr |-> FALSE, v |-> <<x>>] : x \in S}

ByPointer(T, S) == {[T |-> T, ptr |-> TRUE, v |-> <<x>>] : x \in S}

Inputs ==
    ByValue("RSS", RSSs) \cup ByValue("Channel", Channels)
    \cup ByValue("Item", ItemsSparse \cup ItemsFull("item") \cup ItemsFull(""))
    \cup ByPointer("Item", ItemsFull("item"))
    \cup ByValue("TextInput", TextInputs) \cup ByPointer("TextInput", TextInputs)
    \cup ByValue("Cloud", Clouds)
    \cup ByValue("SkipHours", SkipHourss)
    \cup ByValue("SkipDays", SkipDayss)
    \cup ByValue("Image", Images)
    \cup ByValue("Title", Titled) \cup ByPointer("Title", Titled)
    \cup ByValue("GUID", GUIDs)
    \cup ByValue("Comments", Commentss)
    \cup ByValue("Link", Leaves("link")) \cup ByValue("Description", Leaves("description"))
    \cup ByValue("Name", Leaves("name")) \cup ByValue("PubDate", Leaves("pubDate"))
    \cup ByValue("LastBuildDate", Leaves("lastBuildDate"))
    \cup ByValue("TTL", Leaves("ttl")) \cup ByValue("Author", Leaves("author"))
    \cup ByValue("Category", Categories) \cup ByValue("Source", Sources)
    \cup ByValue("Enclosure", Enclosures)

\* The package variables ErrEmptyValue, ..., ErrInvalidURI, each holding
\* the error made for it by errors.New.
ErrVariables ==
    [k \in {"ErrEmptyValue", "ErrNonEmptyValue", "ErrInvalidElement", "ErrInvalidValue",
             "ErrInvalidDate", "ErrInvalidMailAddress", "ErrInvalidURI"} |-> k]

\* No goroutine validates.
NoGoroutines ==
    /\ treeOf = << >>
    /\ iOf = << >>
    /\ resultOf = << >>
    /\ where = << >>
    /\ errVars = ErrVariables
    /\ crashed = FALSE

(***************************************************************************)
(* The state machine: one call of Validate or of an IsValid method on the  *)
(* element arg; ret is what the call returned once pc is "done".           *)
(***************************************************************************)
Init ==
    /\ arg \in Inputs
    /\ fn = "none"
    /\ pc = "start"
    /\ ret = Start
    /\ doc = << >>
    /\ back = NotParsed
    /\ NoGoroutines

\* The receiver of a method called on arg.
Recv == arg.v[1]

Call(f, res) ==
    /\ pc = "start"
    /\ fn' = f
    /\ ret' = res
    /\ pc' = "done"
    /\ UNCHANGED <<arg, doc, back, goVars>>

CallValidate == arg.T \in RSSElement /\ Call("Validate", Validate(arg))

CallRSSIsValid == arg.T = "RSS" /\ Call("RSS.IsValid", RSS_IsValid(Recv))

CallChannelIsValid == arg.T = "Channel" /\ Call("Channel.IsValid", Channel_IsValid(Recv))

CallItemIsValid == arg.T = "Item" /\ Call("Item.IsValid", Item_IsValid(Recv))

CallTextInputIsValid == arg.T = "TextInput" /\ Call("TextInput.IsValid", TextInput_IsValid(Recv))

CallCloudIsValid == arg.T = "Cloud" /\ Call("Cloud.IsValid", Cloud_IsValid(Recv))

CallSkipHoursIsValid == arg.T = "SkipHours" /\ Call("SkipHours.IsValid", SkipHours_IsValid(Recv))

CallSkipDaysIsValid == arg.T = "SkipDays" /\ Call("SkipDays.IsValid", SkipDays_IsValid(Recv))

CallImageIsValid == arg.T = "Image" /\ Call("Image.IsValid", Image_IsValid(Recv))

\* xml.Marshal(arg)
CallMarshal ==
    /\ pc = "start"
    /\ fn' = "Marshal"
    /\ doc' = Marshal(arg)
    /\ pc' = "rendered"
    /\ UNCHANGED <<arg, ret, back, goVars>>

\* xml.Unmarshal(doc, &v) of what xml.Marshal(arg) rendered, v a zero value of
\* the type of arg.
CallUnmarshal ==
    /\ pc = "rendered"
    /\ fn' = "Unmarshal"
    /\ back' = Unmarshal(arg.T, doc)
    /\ pc' = "parsed"
    /\ UNCHANGED <<arg, ret, doc, goVars>>

\* xml.Unmarshal(d, &arg) of a document d, arg holding a zero value.
CallUnmarshalDocument ==
    /\ pc = "start"
    /\ Recv = ZeroOf(arg.T)
    /\ \E d \in Documents(arg.T) :
           /\ doc' = <<d>>
           /\ back' = Unmarshal(arg.T, <<d>>)
    /\ fn' = "Unmarshal"
    /\ pc' = "read"
    /\ UNCHANGED <<arg, ret, goVars>>

CallTitleIsValid == arg.T = "Title" /\ Call("Title.IsValid", Title_IsValid(Recv))

CallGUIDIsValid == arg.T = "GUID" /\ Call("GUID.IsValid", GUID_IsValid(Recv))

CallCommentsIsValid == arg.T = "Comments" /\ Call("Comments.IsValid", Comments_IsValid(Recv))

CallLinkIsValid == arg.T = "Link" /\ Call("Link.IsValid", Link_IsValid(Recv))

CallDescriptionIsValid ==
    arg.T = "Description" /\ Call("Description.IsValid", Description_IsValid(Recv))

CallNameIsValid == arg.T = "Name" /\ Call("Name.IsValid", Name_IsValid(Recv))

CallPubDateIsValid == arg.T = "PubDate" /\ Call("PubDate.IsValid", PubDate_IsValid(Recv))

CallLastBuildDateIsValid ==
    arg.T = "LastBuildDate" /\ Call("LastBuildDate.IsValid", LastBuildDate_IsValid(Recv))

CallCategoryIsValid == arg.T = "Category" /\ Call("Category.IsValid", Category_IsValid(Recv))

CallTTLIsValid == arg.T = "TTL" /\ Call("TTL.IsValid", TTL_IsValid(Recv))

CallAuthorIsValid == arg.T = "Author" /\ Call("Author.IsValid", Author_IsValid(Recv))

CallSourceIsValid == arg.T = "Source" /\ Call("Source.IsValid", Source_IsValid(Recv))

CallEnclosureIsValid == arg.T = "Enclosure" /\ Call("Enclosure.IsValid", Enclosure_IsValid(Recv))

Next ==
    \/ CallValidate
    \/ CallRSSIsValid
    \/ CallChannelIsValid
    \/ CallItemIsValid
    \/ CallTextInputIsValid
    \/ CallCloudIsValid
    \/ CallSkipHoursIsValid
    \/ CallSkipDaysIsValid
    \/ CallImageIsValid
    \/ CallTitleIsValid
    \/ CallGUIDIsValid
    \/ CallCommentsIsValid
    \/ CallLinkIsValid
    \/ CallDescriptionIsValid
    \/ CallNameIsValid
    \/ CallPubDateIsValid
    \/ CallLastBuildDateIsValid
    \/ CallCategoryIsValid
    \/ CallTTLIsValid
    \/ CallAuthorIsValid
    \/ CallSourceIsValid
    \/ CallEnclosureIsValid
    \/ CallMarshal
    \/ CallUnmarshal
    \/ CallUnmarshalDocument

Spec == Init /\ [][Next]_vars

(***************************************************************************)
(* Concurrent validation: NumGoroutines goroutines, each calling Validate  *)
(* on a tree of its own.  A step of a goroutine is the entry into          *)
(* Validate, one iteration of its loop over the fields, or its return.  A  *)
(* panic in one goroutine ends the program for all.                        *)
(***************************************************************************)
NumGoroutines == 2

Goroutines == 1..NumGoroutines

\* The trees validated concurrently: items and text inputs with valid,
\* invalid and absent children, a cloud, and an item held by pointer.
ConcurrentTrees ==
    ByValue("Item", {ItemOf(<< >>, << >>),
                     ItemOf(<<Leaf("title", << >>)>>, <<Leaf("description", SX)>>),
                     [ItemOf(<<Leaf("title", SX)>>, << >>)
                         EXCEPT !.Enclosure = <<BadEnclosure>>,
                                !.Comments = <<Leaf("comments", BadURI)>>]})
    \cup ByValue("TextInput", {[ZeroTextInput EXCEPT !.Link = <<Leaf("link", BadURI)>>]})
    \cup ByValue("Cloud", {ZeroCloud})
    \cup ByPointer("Item", {ItemOf(<< >>, << >>)})

InitConcurrent ==
    /\ arg \in ByValue("Cloud", {ZeroCloud})
    /\ fn = "none"
    /\ pc = "start"
    /\ ret = Start
    /\ doc = << >>
    /\ back = NotParsed
    /\ treeOf \in [Goroutines -> ConcurrentTrees]
    /\ iOf = [g \in Goroutines |-> 1]
    /\ resultOf = [g \in Goroutines |-> Start]
    /\ where = [g \in Goroutines |-> "call"]
    /\ errVars = ErrVariables
    /\ crashed = FALSE

\* The errors e of a child, each read through the package variable it wraps.
WithErrVars(e) == [k \in 1..Len(e) |-> [e[k] EXCEPT !.kind = errVars[e[k].kind]]]

\* A variant of the accumulation that keeps one isValid and one errs for all
\* the goroutines.
Accumulate_Shared(results, g, e) ==
    [h \in DOMAIN results |-> [results[g] EXCEPT !.ok = FALSE, !.errs = results[g].errs \o e]]

\* isValid = false; errs = append(errs, e...) on the locals of goroutine g.
Accumulate(results, g, e) ==
    [results EXCEPT ![g] = [@ EXCEPT !.ok = FALSE, !.errs = @ \o e]]

\* isValid, errs := true, []error{}; v := reflect.ValueOf(r); the first
\* v.NumField() panics when r holds a pointer.
Enter(g) ==
    /\ ~crashed
    /\ where[g] = "call"
    /\ IF treeOf[g].ptr
       THEN crashed' = TRUE /\ UNCHANGED <<iOf, resultOf, where>>
       ELSE /\ where' = [where EXCEPT ![g] = "loop"]
            /\ iOf' = [iOf EXCEPT ![g] = 1]
            /\ resultOf' = [resultOf EXCEPT ![g] = Start]
            /\ UNCHANGED crashed
    /\ UNCHANGED <<treeOf, errVars, callVars>>

\* One iteration of the loop: the field i of the tree of g.
Iterate(g) ==
    /\ ~crashed
    /\ where[g] = "loop"
    /\ iOf[g] <= Len(Fields(treeOf[g].T))
    /\ LET f == Fields(treeOf[g].T)[iOf[g]]
           t == FieldValue(treeOf[g].v[1], f)
       IN  IF ~Implements(f) \/ (t.ptr /\ t.v = << >>)
           THEN UNCHANGED <<resultOf, crashed>>
           ELSE IF IsValidOf(t).panic
           THEN crashed' = TRUE /\ UNCHANGED resultOf
           ELSE /\ resultOf' = IF IsValidOf(t).ok THEN resultOf
                               ELSE Accumulate(resultOf, g, WithErrVars(IsValidOf(t).errs))
                /\ UNCHANGED crashed
    /\ iOf' = [iOf EXCEPT ![g] = @ + 1]
    /\ UNCHANGED <<treeOf, where, errVars, callVars>>

\* return isValid, errs
Return(g) ==
    /\ ~crashed
    /\ where[g] = "loop"
    /\ iOf[g] > Len(Fields(treeOf[g].T))
    /\ where' = [where EXCEPT ![g] = "returned"]
    /\ UNCHANGED <<treeOf, iOf, resultOf, errVars, crashed, callVars>>

NextConcurrent == \E g \in Goroutines : Enter(g) \/ Iterate(g) \/ Return(g)

SpecConcurrent == InitConcurrent /\ [][NextConcurrent]_vars

(***************************************************************************)
(* Properties.                                                             *)
(***************************************************************************)
Done(f) == pc = "done" /\ fn = f

\* The kinds of the errors of a list, in order.
Kinds(errs) == [i \in 1..Len(errs) |-> errs[i].kind]

\* The errors of t.IsValid() for a child held in the pointer p, none if nil.
ErrsOf(T, p) == IF p = << >> THEN << >> ELSE IsValidOf([T |-> T, ptr |-> TRUE, v |-> p]).errs

\* The errors of the present children of an item, in declared order.
ItemChildErrs(r) ==
    ErrsOf("Title", r.Title) \o ErrsOf("Link", r.Link) \o ErrsOf("Description", r.Description)
    \o ErrsOf("Source", r.Source) \o ErrsOf("Enclosure", r.Enclosure)
    \o ErrsOf("Category", r.Category) \o ErrsOf("PubDate", r.PubDate)
    \o ErrsOf("GUID", r.GUID) \o ErrsOf("Comments", r.Comments) \o ErrsOf("Author", r.Author)

\* The errors of the present children of a text input, in declared order.
TextInputChildErrs(r) ==
    ErrsOf("Title", r.Title) \o ErrsOf("Description", r.Description)
    \o ErrsOf("Name", r.Name) \o ErrsOf("Link", r.Link)

\* The errors of the children that Validate visits, by the type of arg.
ChildErrs ==
    CASE arg.T = "Item" -> ItemChildErrs(Recv)
      [] arg.T = "TextInput" -> TextInputChildErrs(Recv)
      [] OTHER -> << >>

\* The children of an item other than its title and description are absent.
OthersAbsent(r) ==
    /\ r.Link = << >> /\ r.Source = << >> /\ r.Enclosure = << >> /\ r.Category = << >>
    /\ r.PubDate = << >> /\ r.GUID = << >> /\ r.Comments = << >> /\ r.Author = << >>

\* The error an element reports about itself as a whole.
IsOwnInvalidElement(e) == e.kind = "ErrInvalidElement" /\ e.form = "Elem"

IsInvalidElement(e) == e.kind = "ErrInvalidElement"

Count(errs, Test(_)) == Cardinality({i \in 1..Len(errs) : Test(errs[i])})

\* C1: RSS.IsValid, and Validate on the root, report the document invalid
\* whenever the version is not exactly "2.0", and report no violation of the
\* version when it is "2.0".
C1_VersionMustBe20 ==
    (pc = "done" /\ arg.T = "RSS" /\ fn \in {"RSS.IsValid", "Validate"}) =>
        /\ ~ret.panic
        /\ Recv.Version # Str20 => ~ret.ok
        /\ Recv.Version = Str20 => \A i \in 1..Len(ret.errs) : ret.errs[i].attr # "version"

\* C2: every call of the validator returns a verdict and a list of
\* violations; none panics.
C2_NeverPanics == pc = "done" => ~ret.panic

\* C3: a channel whose title, link or description is empty, or whose link
\* is no URI, is reported invalid; a channel with the three non-empty, a URI
\* as link and no optional child is reported valid.
C3_ChannelRequiredTriad ==
    Done("Channel.IsValid") =>
        LET c   == Recv
            bad == \/ c.Title.CharData = << >>
                   \/ c.Link.CharData = << >>
                   \/ c.Description.CharData = << >>
                   \/ ~IsValidURI(c.Link.CharData).ok
        IN  /\ ~ret.panic
            /\ bad => ~ret.ok
            /\ (~bad /\ c.Item = << >>) => ret.ok

\* C4: an absent required child yields an InvalidElement violation and an
\* absent optional child none: a root without channel is invalid with an
\* InvalidElement violation, and an item reports nothing about its optional
\* children when they are all absent.
C4_AbsentRequiredChild ==
    /\ (Done("RSS.IsValid") /\ Recv.Channel = << >>) =>
           /\ ~ret.ok
           /\ \E i \in 1..Len(ret.errs) : ret.errs[i].kind = "ErrInvalidElement"
    /\ (Done("Item.IsValid") /\ OthersAbsent(Recv)) =>
           \A i \in 1..Len(ret.errs) : ret.errs[i].tag \in {Recv.XMLName, "title", "description"}

\* C5 as first stated: Validate(e) returns what e.IsValid() returns.
C5_ValidateEqualsIsValid == (Done("Validate") /\ ~arg.ptr) => ret = IsValidOf(arg)

\* C5, amended: Validate(e) on an element held by value evaluates the rules
\* of the present children of e and no rule of e itself: it returns exactly
\* the violations of the non-nil children in declared order (for a Title, a
\* GUID, a Comments or a Cloud, which have no child element, it returns
\* valid and no violation, whatever the character data), while IsValid of a
\* Title, GUID or Comments with empty character data reports EmptyValue.
C5_ValidateChildrenOnly ==
    /\ (Done("Validate") /\ ~arg.ptr /\ arg.T \in {"Item", "TextInput", "Title", "GUID", "Comments", "Cloud"}) =>
           /\ ~ret.panic
           /\ ret.errs = ChildErrs
           /\ ret.ok <=> ChildErrs = << >>
    /\ ((Done("Title.IsValid") \/ Done("GUID.IsValid") \/ Done("Comments.IsValid"))
            /\ Recv.CharData = << >>) =>
           /\ ~ret.ok
           /\ ret.errs # << >>
           /\ ret.errs[1].kind = "ErrEmptyValue"

C5_Witness ==
    /\ Done("Validate") /\ ~arg.ptr
    /\ arg.T \in {"Title", "GUID", "Comments"}
    /\ Recv.CharData = << >>
    /\ ret.ok /\ ret.errs = << >>

\* The channel a call on a root or on a channel is about, as a pointer.
ChannelOfArg == IF arg.T = "RSS" THEN Recv.Channel ELSE <<Recv>>

\* The errors of the items of a list, in order.
RECURSIVE ItemListErrs(_)
ItemListErrs(items) ==
    IF items = << >> THEN << >>
    ELSE (IF Head(items) = << >> THEN << >> ELSE Item_IsValid(Head(items)[1]).errs)
         \o ItemListErrs(Tail(items))

\* C6: a channel, and the root that owns it, with an invalid item is
\* invalid, and the violations of its items end the result in item order.
C6_ItemsValidated ==
    ((Done("RSS.IsValid") \/ Done("Channel.IsValid")) /\ ChannelOfArg # << >>) =>
        LET errs == ItemListErrs(ChannelOfArg[1].Item)
        IN  errs # << >> =>
                /\ ~ret.panic
                /\ ~ret.ok
                /\ Len(ret.errs) >= Len(errs)
                /\ SubSeq(ret.errs, Len(ret.errs) - Len(errs) + 1, Len(ret.errs)) = errs

\* C7: Item.IsValid reports one InvalidElement for the item itself when the
\* title is absent or empty and the description is absent or empty, and
\* none otherwise; an item with only a non-empty description is valid with no
\* violation.
C7_ItemTitleOrDescription ==
    Done("Item.IsValid") =>
        LET r      == Recv
            noneOf == /\ (r.Title = << >> \/ r.Title[1].CharData = << >>)
                      /\ (r.Description = << >> \/ r.Description[1].CharData = << >>)
        IN  /\ ~ret.panic
            /\ Count(ret.errs, IsOwnInvalidElement) = (IF noneOf THEN 1 ELSE 0)
            /\ noneOf => ~ret.ok
            /\ (/\ r.Title = << >>
                /\ r.Description # << >> /\ r.Description[1].CharData # << >>
                /\ OthersAbsent(r)) => (ret.ok /\ ret.errs = << >>)

C7_Witness ==
    /\ Done("Item.IsValid")
    /\ Recv.Title # << >> /\ Recv.Title[1].CharData = << >>
    /\ Recv.Description = << >>
    /\ Count(ret.errs, IsOwnInvalidElement) = 1

\* The violation Item.IsValid and TextInput.IsValid report about the element
\* itself, as a list: empty when its own rule holds.
OwnErrs ==
    IF arg.T = "Item"
    THEN IF /\ (Recv.Title = << >> \/ Recv.Title[1].CharData = << >>)
            /\ (Recv.Description = << >> \/ Recv.Description[1].CharData = << >>)
         THEN <<Errorf(MsgElem(Recv), "ErrInvalidElement",
                       ": one of <title> or <description> must be present")>>
         ELSE << >>
    ELSE IF \E f \in {"Title", "Description", "Name", "Link"} : Recv[f] = << >>
         THEN <<Errorf(MsgElem(Recv), "ErrInvalidElement",
                       ": <title>, <description>, <name> and <link> must be present")>>
         ELSE << >>

\* C8: the violations of an Item or a TextInput are its own violation, then
\* those of its children in declared order; an item with empty title and
\* description and otherwise valid children yields InvalidElement for the
\* item, EmptyValue for the title, EmptyValue for the description.
C8_SelfThenChildrenInOrder ==
    (Done("Item.IsValid") \/ Done("TextInput.IsValid")) =>
        /\ ~ret.panic
        /\ ret.errs = OwnErrs \o ChildErrs
        /\ (/\ arg.T = "Item"
            /\ Recv \in ItemsFull("item")
            /\ Recv.Title = <<Leaf("title", << >>)>>
            /\ Recv.Description = <<Leaf("description", << >>)>>
            /\ Recv.Link # <<Leaf("link", << >>)>>) =>
               /\ Kinds(ret.errs) = <<"ErrInvalidElement", "ErrEmptyValue", "ErrEmptyValue">>
               /\ [i \in 1..3 |-> ret.errs[i].tag] = <<"item", "title", "description">>

C8_Witness ==
    /\ Done("Item.IsValid")
    /\ Recv \in ItemsFull("item")
    /\ Recv.Title = <<Leaf("title", << >>)>>
    /\ Recv.Description = <<Leaf("description", << >>)>>
    /\ Recv.Link = <<Leaf("link", GoodURI)>>
    /\ Len(ret.errs) = 3

CloudAttributes == <<"Domain", "Port", "Path", "RegisterProcedure", "Protocol">>

\* The name in the XML of the attribute held in the field f of a cloud.
CloudAttrName(f) ==
    CASE f = "Domain" -> "domain" [] f = "Port" -> "port" [] f = "Path" -> "path"
      [] f = "RegisterProcedure" -> "registerProcedure" [] f = "Protocol" -> "protocol"

\* The attributes of the cloud r that are absent, in declared order from i.
RECURSIVE AbsentAttrs(_, _)
AbsentAttrs(r, i) ==
    IF i > Len(CloudAttributes) THEN << >>
    ELSE (IF r[CloudAttributes[i]] = << >> THEN <<CloudAttrName(CloudAttributes[i])>> ELSE << >>)
         \o AbsentAttrs(r, i + 1)

\* C9: for a cloud with empty character data, the InvalidElement violations
\* are one for each absent attribute, in the declared order of the
\* attributes; without domain and port and with valid path,
\* registerProcedure and protocol the violations are exactly those two.
C9_CloudAbsentAttributes ==
    (Done("Cloud.IsValid") /\ Recv.CharData = << >>) =>
        LET ie == SelectSeq(ret.errs, IsInvalidElement)
        IN  /\ ~ret.panic
            /\ [i \in 1..Len(ie) |-> ie[i].attr] = AbsentAttrs(Recv, 1)
            /\ (/\ Recv.Domain = << >> /\ Recv.Port = << >>
                /\ Recv.Path = <<SX>> /\ Recv.RegisterProcedure = <<SX>>
                /\ Recv.Protocol = <<XmlRpc>>) =>
                   /\ ~ret.ok
                   /\ Kinds(ret.errs) = <<"ErrInvalidElement", "ErrInvalidElement">>
                   /\ [i \in 1..2 |-> ret.errs[i].attr] = <<"domain", "port">>

C9_Witness ==
    /\ Done("Cloud.IsValid") /\ Recv.CharData = << >>
    /\ Recv.Domain = << >> /\ Recv.Port = << >>
    /\ Recv.Path = <<SX>> /\ Recv.RegisterProcedure = <<SX>> /\ Recv.Protocol = <<XmlRpc>>
    /\ Len(ret.errs) = 2

\* s is a decimal integer in the range 1..65535.
IsPort(s) ==
    /\ s # << >>
    /\ \A i \in 1..Len(s) : s[i] \in Digits
    /\ ParseUint(s).err = "nil"
    /\ ~NumLess(ParseUint(s).n, U(1))
    /\ ~NumLess(U(65535), ParseUint(s).n)

IsPortValueError(e) == e.kind = "ErrInvalidValue" /\ e.attr = "port"

\* C10: Cloud.IsValid reports an InvalidValue violation of the port exactly
\* when the port is present and is no integer in 1..65535.
C10_PortRange ==
    (Done("Cloud.IsValid") /\ Recv.Port # << >>) =>
        /\ ~ret.panic
        /\ ~IsPort(Recv.Port[1]) => Count(ret.errs, IsPortValueError) >= 1
        /\ IsPort(Recv.Port[1]) => Count(ret.errs, IsPortValueError) = 0

Soap == <<"s", "o", "a", "p">>

HttpPost == <<"h", "t", "t", "p", "-", "p", "o", "s", "t">>

IsProtocolError(e) == e.attr = "protocol"

\* The attributes of the cloud r other than protocol are valid, and its
\* character data is empty.
CloudValidButProtocol(r) ==
    /\ r.CharData = << >>
    /\ r.Domain # << >> /\ r.Domain[1] # << >>
    /\ r.Port # << >> /\ IsPort(r.Port[1])
    /\ r.Path # << >> /\ r.Path[1] # << >>
    /\ r.RegisterProcedure # << >> /\ r.RegisterProcedure[1] # << >>

\* C11: for a cloud whose protocol is present, Cloud.IsValid reports one
\* violation of protocol, an InvalidValue, when the value is none of
\* "xml-rpc", "soap", "http-post", and none when it is one of them; when the
\* other attributes are valid that violation is the whole list.
C11_CloudProtocol ==
    (Done("Cloud.IsValid") /\ Recv.Protocol # << >>) =>
        LET known == Recv.Protocol[1] \in {XmlRpc, Soap, HttpPost}
        IN  /\ ~ret.panic
            /\ Count(ret.errs, IsProtocolError) = (IF known THEN 0 ELSE 1)
            /\ \A i \in 1..Len(ret.errs) :
                   IsProtocolError(ret.errs[i]) => ret.errs[i].kind = "ErrInvalidValue"
            /\ CloudValidButProtocol(Recv) =>
                   IF known THEN ret.ok /\ ret.errs = << >>
                   ELSE ~ret.ok /\ Len(ret.errs) = 1

C11_Witness ==
    /\ Done("Cloud.IsValid")
    /\ CloudValidButProtocol(Recv)
    /\ Recv.Protocol = <<<<"f", "t", "p">>>>
    /\ Kinds(ret.errs) = <<"ErrInvalidValue">>

True == <<"t", "r", "u", "e">>

False == <<"f", "a", "l", "s", "e">>

IsInvalidURI(e) == e.kind = "ErrInvalidURI"

\* C12: GUID.IsValid reports InvalidURI exactly when isPermaLink is "true"
\* and the character data is no URI: with non-empty data that is no URI the
\* GUID is valid when isPermaLink is absent or "false", and invalid with the
\* one violation InvalidURI when it is "true".
C12_GUIDPermaLinkURI ==
    Done("GUID.IsValid") =>
        LET r     == Recv
            noURI == ~IsValidURI(r.CharData).ok
        IN  /\ ~ret.panic
            /\ Count(ret.errs, IsInvalidURI) = (IF r.IsPermaLink = <<True>> /\ noURI THEN 1 ELSE 0)
            /\ (r.CharData \in {SX, BadURI} /\ r.IsPermaLink \in {<< >>, <<False>>}) =>
                   ret.ok /\ ret.errs = << >>
            /\ (r.CharData \in {SX, BadURI} /\ r.IsPermaLink = <<True>>) =>
                   ~ret.ok /\ Kinds(ret.errs) = <<"ErrInvalidURI">>

C12_Witness ==
    /\ Done("GUID.IsValid")
    /\ Recv.CharData = BadURI
    /\ Recv.IsPermaLink = <<True>>
    /\ Kinds(ret.errs) = <<"ErrInvalidURI">>

IsPermaLinkError(e) == e.attr = "isPermaLink"

\* C13: GUID.IsValid reports nothing of isPermaLink when it is absent,
\* "true" or "false", and one InvalidValue of it for any other value, the
\* empty one included; a GUID whose character data is a URI is then valid,
\* or invalid with that one violation.
C13_GUIDIsPermaLinkValue ==
    Done("GUID.IsValid") =>
        LET fine == Recv.IsPermaLink \in {<< >>, <<True>>, <<False>>}
        IN  /\ ~ret.panic
            /\ Count(ret.errs, IsPermaLinkError) = (IF fine THEN 0 ELSE 1)
            /\ Recv.CharData = GoodURI =>
                   IF fine THEN ret.ok /\ ret.errs = << >>
                   ELSE /\ ~ret.ok
                        /\ Kinds(ret.errs) = <<"ErrInvalidValue">>
                        /\ ret.errs[1].attr = "isPermaLink"

C13_Witness ==
    /\ Done("GUID.IsValid")
    /\ Recv.CharData = GoodURI
    /\ Recv.IsPermaLink = <<<< >>>>
    /\ Kinds(ret.errs) = <<"ErrInvalidValue">>

\* C14: SkipHours.IsValid is false for more than 24 hours whatever their
\* values; for at most 24 hours, each of them an Hour (no nil entry), it is
\* true exactly when every hour is in 0..23, so it is true for the 24 hours
\* 0..23.
C14_SkipHoursCardinality ==
    Done("SkipHours.IsValid") =>
        LET hours == Recv.Hour
        IN  /\ Len(hours) > 24 => (~ret.panic /\ ~ret.ok)
            /\ (Len(hours) <= 24 /\ \A i \in 1..Len(hours) : hours[i] # << >>) =>
                   /\ ~ret.panic
                   /\ ret.ok <=> \A i \in 1..Len(hours) : hours[i][1] \in 0..23
            /\ hours = [i \in 1..24 |-> <<i - 1>>] => ret.ok

C14_Witness ==
    /\ Done("SkipHours.IsValid")
    /\ Recv.Hour = [i \in 1..24 |-> <<i - 1>>]
    /\ ret.ok

NotEmptyTypes ==
    {"Title", "Link", "Description", "Name", "PubDate", "LastBuildDate", "Category", "TTL",
     "GUID", "Comments", "Author"}

\* The kind of the violation of the format rule of the elements that have one.
FormatKind(T) ==
    CASE T \in {"Link", "Comments"} -> "ErrInvalidURI"
      [] T \in {"PubDate", "LastBuildDate"} -> "ErrInvalidDate"
      [] T = "Author" -> "ErrInvalidMailAddress"
      [] T = "TTL" -> "ErrInvalidValue"

IsEmptyData(e) == e.kind = "ErrEmptyValue" /\ e.form = "ElemValue"

\* C15: IsValid of an element with a not-empty rule, called on empty
\* character data, reports one EmptyValue of the character data, and
\* reports it first; Title, Description and Name report nothing else, and
\* Link, Comments, PubDate, LastBuildDate, Author and TTL report two
\* violations, the EmptyValue and then that of their format rule.
C15_EmptyDataReported ==
    (pc = "done" /\ fn # "Validate" /\ arg.T \in NotEmptyTypes /\ Recv.CharData = << >>) =>
        /\ ~ret.panic
        /\ ~ret.ok
        /\ Count(ret.errs, IsEmptyData) = 1
        /\ IsEmptyData(ret.errs[1])
        /\ arg.T \in {"Title", "Description", "Name"} => Len(ret.errs) = 1
        /\ arg.T \in {"Link", "Comments", "PubDate", "LastBuildDate", "Author", "TTL"} =>
               Kinds(ret.errs) = <<"ErrEmptyValue", FormatKind(arg.T)>>

C15_Witness ==
    /\ Done("Link.IsValid")
    /\ Recv.CharData = << >>
    /\ Kinds(ret.errs) = <<"ErrEmptyValue", "ErrInvalidURI">>

\* s is a decimal integer that is not negative.
IsNatural(s) == s # << >> /\ \A i \in 1..Len(s) : s[i] \in Digits

\* The kind and the attribute of each violation expected of an enclosure, by
\* check: character data, url, length, type.
EnclosureData(r) == IF r.CharData # << >> THEN <<<<"ErrNonEmptyValue", "">>>> ELSE << >>

EnclosureURL(r) ==
    IF r.URL = << >> THEN <<<<"ErrInvalidElement", "url">>>>
    ELSE (IF r.URL[1] = << >> THEN <<<<"ErrEmptyValue", "url">>>> ELSE << >>)
         \o (IF r.URL[1] # GoodURI THEN <<<<"ErrInvalidURI", "url">>>> ELSE << >>)

EnclosureLength(r) ==
    IF r.Length = << >> THEN <<<<"ErrInvalidElement", "length">>>>
    ELSE IF ~IsNatural(r.Length[1]) THEN <<<<"ErrInvalidValue", "length">>>>
    ELSE << >>

EnclosureType(r) ==
    IF r.Type = << >> THEN <<<<"ErrInvalidElement", "type">>>>
    ELSE IF r.Type[1] = << >> THEN <<<<"ErrEmptyValue", "type">>>>
    ELSE << >>

KindsAndAttrs(errs) == [i \in 1..Len(errs) |-> <<errs[i].kind, errs[i].attr>>]

\* C16: the violations of Enclosure.IsValid are those of the character data,
\* of url, of length and of type, in this order, each check that fails
\* giving its own; non-empty data, an empty url, the length "-1" and an empty
\* type give NonEmptyValue, EmptyValue of url, InvalidURI of url,
\* InvalidValue of length, EmptyValue of type; the length "0" is accepted.
C16_EnclosureOrder ==
    Done("Enclosure.IsValid") =>
        /\ ~ret.panic
        /\ KindsAndAttrs(ret.errs)
               = EnclosureData(Recv) \o EnclosureURL(Recv) \o EnclosureLength(Recv)
                 \o EnclosureType(Recv)
        /\ ret.ok <=> ret.errs = << >>
        /\ Recv = EnclosureOf(SX, <<<< >>>>, <<<<"-", "1">>>>, <<<< >>>>) =>
               Kinds(ret.errs) = <<"ErrNonEmptyValue", "ErrEmptyValue", "ErrInvalidURI",
                                   "ErrInvalidValue", "ErrEmptyValue">>
        /\ Recv.Length = <<<<"0">>>> => \A i \in 1..Len(ret.errs) : ret.errs[i].attr # "length"

C16_Witness ==
    /\ Done("Enclosure.IsValid")
    /\ Recv = EnclosureOf(SX, <<<< >>>>, <<<<"-", "1">>>>, <<<< >>>>)
    /\ Len(ret.errs) = 5

\* The violations of errs that name the attribute a.
OfAttr(errs, a) == SelectSeq(KindsAndAttrs(errs), LAMBDA e : e[2] = a)

\* C17: for each of url, length, type that is absent, Enclosure.IsValid
\* reports one violation of the attribute, an InvalidElement, and no
\* violation of its value; when the character data is empty and the two
\* other attributes are valid it reports nothing else.
C17_EnclosureAbsentAttribute ==
    Done("Enclosure.IsValid") =>
        /\ ~ret.panic
        /\ Recv.URL = << >> => OfAttr(ret.errs, "url") = <<<<"ErrInvalidElement", "url">>>>
        /\ Recv.Length = << >> => OfAttr(ret.errs, "length") = <<<<"ErrInvalidElement", "length">>>>
        /\ Recv.Type = << >> => OfAttr(ret.errs, "type") = <<<<"ErrInvalidElement", "type">>>>
        /\ Recv \in {EnclosureOf(<< >>, << >>, <<<<"0">>>>, <<SX>>),
                     EnclosureOf(<< >>, <<GoodURI>>, << >>, <<SX>>),
                     EnclosureOf(<< >>, <<GoodURI>>, <<<<"0">>>>, << >>)} =>
               Kinds(ret.errs) = <<"ErrInvalidElement">>

C17_Witness ==
    /\ Done("Enclosure.IsValid")
    /\ Recv = EnclosureOf(<< >>, <<GoodURI>>, << >>, <<SX>>)
    /\ Kinds(ret.errs) = <<"ErrInvalidElement">>

\* C18: Source.IsValid does not look at the character data: it is valid
\* exactly when url is present, not empty and a URI; an absent url gives one
\* InvalidElement, an empty url EmptyValue and then InvalidURI, and a url
\* that is no URI one InvalidURI.
C18_SourceURL ==
    Done("Source.IsValid") =>
        LET u == Recv.URL
        IN  /\ ~ret.panic
            /\ ret.ok <=> (u # << >> /\ u[1] # << >> /\ IsValidURI(u[1]).ok)
            /\ ret.ok <=> ret.errs = << >>
            /\ u = << >> => KindsAndAttrs(ret.errs) = <<<<"ErrInvalidElement", "url">>>>
            /\ u = <<<< >>>> => Kinds(ret.errs) = <<"ErrEmptyValue", "ErrInvalidURI">>
            /\ u \in {<<SX>>, <<BadURI>>} => Kinds(ret.errs) = <<"ErrInvalidURI">>
            /\ u = <<GoodURI>> => ret.ok

C18_Witness ==
    /\ Done("Source.IsValid")
    /\ Recv.CharData = << >>
    /\ Recv.URL = <<GoodURI>>
    /\ ret.ok /\ ret.errs = << >>

\* The violation with the tag and the kind given is among errs.
Has(errs, tag, kind) == \E i \in 1..Len(errs) : errs[i].tag = tag /\ errs[i].kind = kind

\* C19: TextInput.IsValid reports one InvalidElement, of the text input,
\* when one or more of title, description, name, link are absent, and none
\* when all are present; absent children add nothing (with the four absent
\* the list is that one violation), and the children present are validated.
C19_TextInputUnit ==
    Done("TextInput.IsValid") =>
        LET r      == Recv
            absent == {f \in {"Title", "Description", "Name", "Link"} : r[f] = << >>}
        IN  /\ ~ret.panic
            /\ Count(ret.errs, IsInvalidElement) = (IF absent # {} THEN 1 ELSE 0)
            /\ absent # {} => (~ret.ok /\ IsOwnInvalidElement(ret.errs[1]))
            /\ Cardinality(absent) = 4 => Len(ret.errs) = 1
            /\ \A i \in 1..Len(ret.errs) :
                   ~IsInvalidElement(ret.errs[i]) =>
                       \E f \in {"Title", "Description", "Name", "Link"} \ absent :
                           ret.errs[i].tag = r[f][1].XMLName
            /\ \A f \in {"Title", "Description", "Name", "Link"} \ absent :
                   r[f][1].CharData = << >> => Has(ret.errs, r[f][1].XMLName, "ErrEmptyValue")
            /\ (r.Link # << >> /\ r.Link[1].CharData = BadURI) => Has(ret.errs, "link", "ErrInvalidURI")

C19_Witness ==
    /\ Done("TextInput.IsValid")
    /\ Recv.Title = << >> /\ Recv.Name = << >>
    /\ Recv.Description # << >> /\ Recv.Description[1].CharData = << >>
    /\ Recv.Link # << >> /\ Recv.Link[1].CharData = BadURI
    /\ Kinds(ret.errs) = <<"ErrInvalidElement", "ErrEmptyValue", "ErrInvalidURI">>

\* C20: Category.IsValid is valid exactly when the character data is not
\* empty and domain is absent or not empty; empty data gives one EmptyValue
\* of the element, an empty domain one EmptyValue of the attribute, and a
\* domain that is no URI gives nothing.
C20_CategoryDomain ==
    Done("Category.IsValid") =>
        LET r == Recv
        IN  /\ ~ret.panic
            /\ ret.ok <=> (r.CharData # << >> /\ (r.Domain = << >> \/ r.Domain[1] # << >>))
            /\ KindsAndAttrs(ret.errs)
                   = (IF r.CharData = << >> THEN <<<<"ErrEmptyValue", "">>>> ELSE << >>)
                     \o (IF r.Domain = <<<< >>>> THEN <<<<"ErrEmptyValue", "domain">>>> ELSE << >>)

C20_Witness ==
    /\ Done("Category.IsValid")
    /\ Recv.CharData = SX
    /\ Recv.Domain = <<BadURI>>
    /\ ret.ok /\ ret.errs = << >>

\* The calls that return a verdict alone, without a list of violations.
VerdictOnly == {"Channel.IsValid", "SkipHours.IsValid", "SkipDays.IsValid"}

\* C26: when Validate, or an IsValid that returns a verdict and a list of
\* violations, returns, the verdict is true exactly when the list is empty.
C26_VerdictIffNoViolation ==
    (pc = "done" /\ fn \notin VerdictOnly /\ ~ret.panic) => (ret.ok <=> ret.errs = << >>)

C26_Witness ==
    /\ Done("Validate") /\ arg.T = "Item"
    /\ ~ret.panic /\ ~ret.ok /\ Len(ret.errs) > 1

\* C27: an item with an empty title, a description that is not empty and no
\* other child reports no InvalidElement and exactly one violation, the
\* EmptyValue of its title; the same item without title is valid.
C27_ItemEmptyTitle ==
    (/\ Done("Item.IsValid") /\ OthersAbsent(Recv)
     /\ Recv.Description # << >> /\ Recv.Description[1].CharData # << >>) =>
        /\ (Recv.Title # << >> /\ Recv.Title[1].CharData = << >>) =>
               /\ ~ret.panic /\ ~ret.ok
               /\ Count(ret.errs, IsInvalidElement) = 0
               /\ Len(ret.errs) = 1
               /\ ret.errs[1].kind = "ErrEmptyValue"
               /\ ret.errs[1].tag = "title"
               /\ ret.errs[1].value = << >>
        /\ Recv.Title = << >> => (~ret.panic /\ ret.ok /\ ret.errs = << >>)

C27_Witness ==
    /\ Done("Item.IsValid") /\ OthersAbsent(Recv)
    /\ Recv.Description = <<Leaf("description", SX)>>
    /\ Recv.Title = <<Leaf("title", << >>)>>
    /\ Kinds(ret.errs) = <<"ErrEmptyValue">>

\* The kind of the violation of a present and empty attribute of a cloud.
CloudEmptyKind(f) == IF f \in {"Port", "Protocol"} THEN "ErrInvalidValue" ELSE "ErrEmptyValue"

\* C28: Cloud.IsValid reports at most one violation of each attribute; the
\* violation is an InvalidElement exactly when the attribute is absent, an
\* empty domain, path or registerProcedure gives an EmptyValue and an empty
\* port or protocol an InvalidValue; there are at most six violations.
C28_CloudOnePerAttribute ==
    Done("Cloud.IsValid") =>
        /\ ~ret.panic
        /\ Len(ret.errs) <= 6
        /\ \A k \in 1..Len(CloudAttributes) :
               LET f  == CloudAttributes[k]
                   es == SelectSeq(ret.errs, LAMBDA e : e.attr = CloudAttrName(f))
               IN  /\ Len(es) <= 1
                   /\ Recv[f] = << >> <=> (Len(es) = 1 /\ es[1].kind = "ErrInvalidElement")
                   /\ Recv[f] = <<<< >>>> => (Len(es) = 1 /\ es[1].kind = CloudEmptyKind(f))

C28_Witness ==
    /\ Done("Cloud.IsValid")
    /\ Recv.CharData = SX
    /\ Recv.Domain = <<<< >>>> /\ Recv.Port = <<<< >>>> /\ Recv.Protocol = <<<< >>>>
    /\ Recv.Path = << >> /\ Recv.RegisterProcedure = << >>
    /\ Len(ret.errs) = 6

\* The element types without child elements whose IsValid returns a list.
LeafTypes ==
    {"Title", "Link", "Description", "PubDate", "LastBuildDate", "Category", "Cloud", "TTL",
     "Name", "Source", "Enclosure", "GUID", "Comments", "Author"}

\* C24: every violation that IsValid reports for an element without child
\* elements carries the tag of the type of the element, whether the element
\* was parsed or built as a value.
C24_ViolationsCarryTag ==
    (pc = "done" /\ fn # "Validate" /\ arg.T \in LeafTypes) =>
        \A i \in 1..Len(ret.errs) : ret.errs[i].tag = XMLTag(arg.T)

\* C23: an image whose width is present and no integer in 0..144, or whose
\* height is present and no integer in 0..400, is reported invalid; an absent
\* width or height causes no violation.
C23_ImageWidthHeight ==
    Done("Image.IsValid") =>
        LET r == Recv
        IN  /\ ~ret.panic
            /\ ((r.Width # << >> /\ ~Width_IsValid(r.Width).ok)
                \/ (r.Height # << >> /\ ~Height_IsValid(r.Height).ok)) => ~ret.ok
            /\ (r.Width = << >> /\ r.Height = << >>) => ret.errs = << >>

KidsNamed(e, n) == SelectSeq(e.kids, LAMBDA k : k.name = n)

AttrsNamed(e, n) == SelectSeq(e.attrs, LAMBDA a : a.name = n)

\* The element types with optional slots.
WithOptionalSlots == {"Channel", "Item", "Category", "GUID"}

\* C21: in the rendering of a channel, an item, a category or a guid, an
\* optional child or attribute that is absent (a nil pointer, or the zero
\* value of a field that is no pointer) has no element and no attribute, and
\* one that is present and empty has exactly one, with empty text or value.
C21_AbsentNotRendered ==
    (pc = "rendered" /\ arg.T \in WithOptionalSlots /\ doc # << >>) =>
        \A i \in 1..Len(Fields(arg.T)) :
            LET f == Fields(arg.T)[i]
                x == Recv[f.name]
                n == IF IsAttr(arg.T, f.name)
                     THEN AttrsNamed(doc[1], XMLTag(f.name))
                     ELSE KidsNamed(doc[1], XMLTag(f.name))
            IN  OmitEmpty(arg.T, f.name) =>
                    /\ x = ZeroField(f) => n = << >>
                    /\ (f.kind = "Ptr" /\ x # << >>) =>
                           /\ Len(n) = 1
                           /\ (IsAttr(arg.T, f.name) /\ x[1] = << >>) => n[1].value = << >>
                           /\ (IsStruct(f.type) /\ HasCharData(f.type) /\ x[1].CharData = << >>) =>
                                  n[1].text = << >>

\* C22: parsing the rendering of a channel, an item or a guid whose XMLName
\* holds its tag, with its required children present and no nil item, gives
\* the tree back.
C22_RoundTrip ==
    (/\ pc = "parsed"
     /\ arg.T \in {"Channel", "Item", "GUID"}
     /\ Recv.XMLName = XMLTag(arg.T)
     /\ arg.T = "Channel" => \A i \in 1..Len(Recv.Item) : Recv.Item[i] # << >>) =>
        back = Parsed(Recv)

\* The texts of the elements es, each as a pointer.
TextsOf(es) == [i \in 1..Len(es) |-> <<es[i].text>>]

\* C30: a SkipDays of n days is rendered as n elements <day> and no element
\* <hour>, and <skipDays> with n elements <day> is parsed as their n texts
\* in order.
C30_DayElements ==
    /\ (pc = "rendered" /\ arg.T = "SkipDays" /\ \A i \in 1..Len(Recv.Day) : Recv.Day[i] # << >>) =>
           /\ TextsOf(KidsNamed(doc[1], "day")) = Recv.Day
           /\ KidsNamed(doc[1], "hour") = << >>
    /\ (pc = "read" /\ arg.T = "SkipDays") =>
           /\ back.err = "nil"
           /\ back.v[1].Day = TextsOf(KidsNamed(doc[1], "day"))

\* C25: in every interleaving of the goroutines, a validation that returned
\* holds the verdict and the violations that Validate gives for its tree
\* alone, so two goroutines with equal trees return the same; no step
\* changes a tree or a package variable.
C25_Interleaving ==
    /\ [](\A g \in DOMAIN where : where[g] = "returned" => resultOf[g] = Validate(treeOf[g]))
    /\ [](\A g, h \in DOMAIN where :
             (where[g] = "returned" /\ where[h] = "returned" /\ treeOf[g] = treeOf[h]) =>
                 resultOf[g] = resultOf[h])
    /\ [][treeOf' = treeOf /\ errVars' = errVars]_vars

C25_Witness ==
    /\ \A g \in DOMAIN where : where[g] = "returned"
    /\ DOMAIN where # {}
    /\ \E g, h \in DOMAIN where :
           /\ treeOf[g] # treeOf[h]
           /\ Len(resultOf[g].errs) > 1
           /\ resultOf[h].errs # << >>
           /\ resultOf[g].errs # resultOf[h].errs

====
